---- MODULE Spec2Model ----
(***************************************************************************)
(* Nimbus core: the in-process event bus (NimbusEventBus) and the message  *)
(* router (MessageRouter), modelled as state machines.                     *)
(*                                                                         *)
(* Event bus.  putEvent is a synchronous method: the size check, the       *)
(* publish metrics, logPublish and EventEmitter.emit all run inside the    *)
(* call, and emit calls every listener (handleEvent -> _processEvent ->    *)
(* handler(event)) up to that listener's first suspension.  What happens   *)
(* after a suspension (the handler's promise settling, the retry timer,    *)
(* the catch block of handleEvent) is one action per resumption.           *)
(*                                                                         *)
(* Delays are kept exact: Math.random() is drawn from the grid             *)
(* {0/JitterSteps .. (JitterSteps-1)/JitterSteps} and a delay of x ms is   *)
(* the integer x * DelayUnit.                                              *)
(***************************************************************************)
EXTENDS Integers, Sequences, FiniteSets, TLC

\* ---------------------------------------------------------------- bounds
MaxSubs == 2
MaxEvents == 2
MaxDeliveries == 2
MaxRoutes == 2
MaxRegistryOps == 4
MaxInstanceCalls == 2
JitterSteps == 2

\* ------------------------------------------------------ program constants
DefaultMaxRetries == 2
DefaultBaseDelay == 1000
DefaultMaxDelay == 30000
MaxSizeBytes == 64 * 1024

DelayUnit == 10 * JitterSteps

\* ----------------------------------------------------------------- inputs
\* 'error' is the event name EventEmitter treats specially.
EventTypes == {"a", "error"}

\* The JSON text of an event, by the number of its characters that take
\* one, two and three bytes in UTF-8 (each is one UTF-16 code unit).
\* LimitText is 65 535 characters and 65 536 bytes long, OverText 65 536
\* characters and 65 537 bytes.
LimitText == [b1 |-> 65534, b2 |-> 1, b3 |-> 0]
OverText == [b1 |-> 65535, b2 |-> 1, b3 |-> 0]
EventTexts == { LimitText, OverText }
\* The source attribute of the events.
EventSource == "https://nimbus.overlap.at"

NoOptions == [k \in {} |-> 0]

ShortRetry == [maxRetries |-> 1, baseDelay |-> 10, maxDelay |-> 15, useJitter |-> FALSE]

BusOptionChoices == { NoOptions, ShortRetry }

\* The subscriptions made when publishing is explored (retry policy of the
\* bus), and those made when retrying is explored (one event type): an
\* event type, an onError callback or none, and the retry options.
PublishSubscriptions ==
    { [type |-> "a", onError |-> "returns", options |-> NoOptions],
      [type |-> "error", onError |-> "none", options |-> NoOptions] }
RetrySubscriptions ==
    { [type |-> "a", onError |-> "none", options |-> NoOptions],
      [type |-> "a", onError |-> "returns", options |-> [maxRetries |-> 0]],
      [type |-> "a", onError |-> "returns",
       options |-> [maxRetries |-> 2, baseDelay |-> 10, maxDelay |-> 15]] }

\* The subscriptions made when the effective retry policy and the error sink
\* are explored: no options, options of 0, and options that turn jitter off.
PolicySubscriptions ==
    { [type |-> "a", onError |-> "returns", options |-> NoOptions],
      [type |-> "a", onError |-> "none",
       options |-> [maxRetries |-> 0, baseDelay |-> 0, maxDelay |-> 0]],
      [type |-> "a", onError |-> "none",
       options |-> [maxRetries |-> 1, useJitter |-> FALSE]] }

LogPublishKinds == {"none", "returns", "throws"}
\* What one call of a handler does before control returns to the bus: it
\* returns a promise that is still pending, or it throws synchronously.
CallKinds == {"pending", "throw"}
RandomDraws == 0 .. (JitterSteps - 1)
\* A call of a handler together with the value Math.random() returns if the
\* call fails and a delay is computed.
CallChoices ==
    { [kind |-> "pending", rnd |-> 0] } \cup { [kind |-> "throw", rnd |-> r] : r \in RandomDraws }
\* The settling of a pending handler promise, likewise.
SettleChoices ==
    { [outcome |-> "ok", rnd |-> 0] } \cup { [outcome |-> "fail", rnd |-> r] : r \in RandomDraws }
\* The rejection of a pending handler promise with a value that is not an
\* Error.
RejectionChoices == { [outcome |-> "failValue", rnd |-> 0] }
\* The choices left when no subscription uses jitter: Math.random() is not
\* consulted.
NoJitter(choices) == { c \in choices : c.rnd = 0 }

\* A router input: its type attribute (possibly missing or empty), whether
\* data.aNumber is a number or a string, and a top-level attribute no schema
\* declares.
Undefined == "undefined"
RouteTypes == {Undefined, "", "cmd", "qry"}
RouteInputs == [type : RouteTypes, data : {"number", "string"}, extra : {"present"}]
\* The register calls: a message type, a handler and a schema. Schema
\* numberData wants data.aNumber to be a number, anyData accepts any data.
Registrations ==
    { [type |-> "", handler |-> "h1", schema |-> "numberData"],
      [type |-> "cmd", handler |-> "h1", schema |-> "numberData"],
      [type |-> "cmd", handler |-> "h2", schema |-> "anyData"],
      [type |-> "qry", handler |-> "h2", schema |-> "numberData"] }
LogKinds == {"none", "returns", "throws"}
RouterOptionChoices ==
    { NoOptions,
      [logInput |-> "returns", logOutput |-> "returns"],
      [logInput |-> "throws"],
      [logOutput |-> "throws"] }

\* The legacy router made by createRouter: its handler map is a plain object,
\* so a lookup also finds what every object inherits ('constructor').
LegacyTypes == {Undefined, "cmd", "qry", "constructor"}
LegacyInputs == [type : LegacyTypes, data : {"number", "string"}, extra : {"present"}]
LegacyHandlerMaps ==
    { [t \in {} |-> 0],
      [t \in {"cmd"} |-> [handler |-> "h1", inputType |-> "numberData"]] }
\* A handler of the legacy router returns a promise, throws an error, or
\* throws a ZodError.
LegacyCallKinds == {"pending", "throw", "throwZod"}

\* The inputs of createCommand, createQuery and createEvent: each optional
\* attribute is missing, the empty string or a value; source, type and data
\* are given.
Factories == {"createCommand", "createQuery", "createEvent"}
OptionalValues(v) == {Undefined, "", v}
FactoryInputs ==
    [ id : OptionalValues("id-1"), correlationid : OptionalValues("corr-1"),
      time : OptionalValues("2025-01-01T00:00:00Z"),
      datacontenttype : OptionalValues("text/plain"),
      dataschema : OptionalValues("https://nimbus.overlap.at/schema"),
      subject : {Undefined, "/orders"},
      source : {"https://nimbus.overlap.at"}, type : {"cmd"}, data : {"number"} ]
\* Nothing was created: the input is a placeholder.
NotCreated ==
    [ factory |-> "none",
      input |-> [ id |-> Undefined, correlationid |-> Undefined, time |-> Undefined,
                  datacontenttype |-> Undefined, dataschema |-> Undefined,
                  subject |-> Undefined, source |-> Undefined, type |-> Undefined,
                  data |-> Undefined ],
      output |-> [k \in {} |-> 0] ]

\* The names under which buses and routers are set up and looked up.
Names == {"default", "orders"}

VARIABLES bus, subs, pubs, deliveries, busMetrics, router, handlers, routes,
          lastRegister,
          legacy, legacyCalls,
          eventBusRegistry, routerRegistry, busInstances, routerInstances,
          registryLog, instanceCalls,
          created

busVars == <<bus, subs, pubs, deliveries, busMetrics>>
\* lastRegister keeps, for the properties, the arguments of the most recent
\* register call of each message type.
routerVars == <<router, handlers, routes, lastRegister>>
legacyVars == <<legacy, legacyCalls>>
registryVars == <<eventBusRegistry, routerRegistry, busInstances, routerInstances,
                  registryLog, instanceCalls>>
factoryVars == <<created>>
vars == <<busVars, routerVars, legacyVars, registryVars, factoryVars>>
nonBusVars == <<routerVars, legacyVars, registryVars, factoryVars>>
nonRouterVars == <<busVars, legacyVars, registryVars, factoryVars>>
nonLegacyVars == <<busVars, routerVars, registryVars, factoryVars>>
nonRegistryVars == <<busVars, routerVars, legacyVars, factoryVars>>
nonFactoryVars == <<busVars, routerVars, legacyVars, registryVars>>

\* The module state of eventBus.ts and router.ts when they are loaded: two
\* empty registries, no instance.
NoRegistry ==
    /\ eventBusRegistry = [n \in {} |-> 0]
    /\ routerRegistry = [n \in {} |-> 0]
    /\ busInstances = <<>>
    /\ routerInstances = <<>>
    /\ registryLog = <<>>
    /\ instanceCalls = <<>>

\* ---------------------------------------------------------------- helpers
Min2(a, b) == IF a < b THEN a ELSE b

RECURSIVE Pow2(_)
Pow2(n) == IF n <= 0 THEN 1 ELSE 2 * Pow2(n - 1)

\* options?.f || d: a value of 0 or false counts as absent.
OrDefault(options, f, d) ==
    IF f \notin DOMAIN options THEN d
    ELSE IF f \in {"maxRetries", "baseDelay", "maxDelay"} /\ options[f] = 0 THEN d
    ELSE IF f = "useJitter" /\ ~options[f] THEN d
    ELSE options[f]

\* options?.f ?? d
Nullish(options, f, d) == IF f \in DOMAIN options THEN options[f] ELSE d

\* new TextEncoder().encode(eventJson).length
Utf8Length(text) == text.b1 + 2 * text.b2 + 3 * text.b3

\* eventJson.length (UTF-16 code units)
StringLength(text) == text.b1 + text.b2 + text.b3

\* ------------------------------------------------------------ constructor
NimbusEventBus(options, logPublish) ==
    [ maxRetries |-> Nullish(options, "maxRetries", DefaultMaxRetries),
      baseDelay  |-> Nullish(options, "baseDelay", DefaultBaseDelay),
      maxDelay   |-> Nullish(options, "maxDelay", DefaultMaxDelay),
      useJitter  |-> Nullish(options, "useJitter", TRUE),
      logPublish |-> logPublish ]

\* ----------------------------------------------------------------- errors
NoError == [class |-> "none", message |-> ""]
SizeError == [class |-> "GenericException", message |-> "Event size exceeds the limit of 64KB"]
\* The exception of a final failure with the stack its constructor captured.
DeliveryErrorOwnStack(error, type) ==
    [ class |-> "GenericException",
      message |-> "Failed to handle event: " \o type \o " from " \o EventSource,
      stack |-> "GenericException stack" ]

\* The exception _handleFinalFailure throws for the caught error of a
\* delivery of an event of the type: it takes the stack of an Error that has
\* one.
DeliveryError(error, type) ==
    [ class |-> "GenericException",
      message |-> "Failed to handle event: " \o type \o " from " \o EventSource,
      stack |-> IF error.class = "Error" /\ error.stack # "none"
                THEN error.stack ELSE "GenericException stack" ]
\* What a throwing logPublish callback throws.
LogPublishError == [class |-> "Error", message |-> "logPublish"]
\* What EventEmitter.emit throws for an 'error' event nobody listens to.
UnhandledError == [class |-> "Error", message |-> "Unhandled error"]
\* What a failing handler throws or rejects with.
HandlerError == [class |-> "Error", message |-> "handler", stack |-> "handler stack"]
\* A value that is not an Error, which a handler's promise may reject with.
HandlerRejection == [class |-> "string", message |-> "handler", stack |-> "none"]
\* What the catch block of the retry loop catches when the handler's promise
\* settles with the outcome.
Caught(outcome) == IF outcome = "failValue" THEN HandlerRejection ELSE HandlerError

\* ------------------------------------------------------------ size check
\* The exception _validateEventSize throws, or NoError.
ValidateEventSizeUtf16(text) ==
    IF StringLength(text) > MaxSizeBytes THEN SizeError ELSE NoError

ValidateEventSize(text) ==
    IF Utf8Length(text) > MaxSizeBytes THEN SizeError ELSE NoError

\* ------------------------------------------------------------ retry delay
\* delay + jitter, in units of 1/DelayUnit ms; rnd/JitterSteps is the value
\* of Math.random().
CalculateRetryDelayOffByOne(attempt, baseDelay, maxDelay, useJitter, rnd) ==
    LET delay == Min2(baseDelay * Pow2(attempt), maxDelay)
        jitter == IF useJitter THEN rnd * delay ELSE 0
    IN  delay * DelayUnit + jitter

CalculateRetryDelayUncapped(attempt, baseDelay, maxDelay, useJitter, rnd) ==
    LET delay == baseDelay * Pow2(attempt - 1)
        jitter == IF useJitter THEN rnd * delay ELSE 0
    IN  delay * DelayUnit + jitter

CalculateRetryDelay(attempt, baseDelay, maxDelay, useJitter, rnd) ==
    LET delay == Min2(baseDelay * Pow2(attempt - 1), maxDelay)
        jitter == IF useJitter THEN rnd * delay ELSE 0
    IN  delay * DelayUnit + jitter

\* --------------------------------------------------------------- delivery
NoSleep == [n |-> 0, ms |-> 0]

NewDelivery(s, ev) ==
    [ sub |-> s, ev |-> ev, attempt |-> 0, calls |-> <<>>, results |-> <<>>,
      pc |-> "start", sleep |-> NoSleep, sleeps |-> 0,
      delivered |-> <<>>, spanEnds |-> 0, retries |-> 0, retryEvents |-> <<>>,
      caught |-> NoError, sinkError |-> NoError, onErrorCalls |-> <<>>,
      errorLogs |-> 0 ]

\* _recordDeliveryMetrics
RecordDeliveryMetrics(d, status) ==
    [d EXCEPT !.delivered = Append(@, status)]

\* A _handleFinalFailure that returns instead of throwing: the loop ends and
\* the promise of _processEvent resolves.
HandleFinalFailureReturns(d) ==
    [RecordDeliveryMetrics(d, "error") EXCEPT !.spanEnds = @ + 1, !.pc = "done"]

\* _handleFinalFailure: records the error metric, ends the span and throws
\* the GenericException, which rejects the promise of _processEvent.
HandleFinalFailure(d) ==
    [RecordDeliveryMetrics(d, "error") EXCEPT
        !.spanEnds = @ + 1,
        !.sinkError = DeliveryError(d.caught, subs[d.sub].type),
        !.pc = "rejected"]

\* The retry path recording the delivery as failed before it sleeps.
SleepAfterRecording(d, a, rnd) ==
    LET s == subs[d.sub]
    IN  [RecordDeliveryMetrics(d, "error") EXCEPT
            !.caught = NoError,
            !.retries = @ + 1,
            !.sleep = [n |-> a,
                       ms |-> CalculateRetryDelay(a, s.baseDelay, s.maxDelay,
                                                  s.useJitter, rnd)],
            !.retryEvents = Append(@, a),
            !.sleeps = @ + 1,
            !.pc = "sleeping"]

\* The rest of the catch block of the retry loop: the retry counter, the
\* delay, the 'retry' span event and the sleep.
SleepAfter(d, a, rnd) ==
    LET s == subs[d.sub]
    IN  [d EXCEPT
            !.caught = NoError,
            !.retries = @ + 1,
            !.sleep = [n |-> a,
                       ms |-> CalculateRetryDelay(a, s.baseDelay, s.maxDelay,
                                                  s.useJitter, rnd)],
            !.retryEvents = Append(@, a),
            !.sleeps = @ + 1,
            !.pc = "sleeping"]

\* The catch block counting the retry before it looks at the attempt number.
OnAttemptFailedCountsFirst(d, rnd) ==
    LET a == d.attempt + 1
        d1 == [d EXCEPT !.attempt = a, !.results = Append(@, "fail")]
    IN  IF a > subs[d.sub].maxRetries
        THEN HandleFinalFailure([d1 EXCEPT !.retries = @ + 1,
                                           !.retryEvents = Append(@, a)])
        ELSE SleepAfter(d1, a, rnd)

OnAttemptFailedOffByOne(d, rnd) ==
    LET a == d.attempt + 1
        d1 == [d EXCEPT !.attempt = a, !.results = Append(@, "fail")]
    IN  IF a >= subs[d.sub].maxRetries
        THEN HandleFinalFailure(d1)
        ELSE SleepAfter(d1, a, rnd)

\* A catch block counting the attempts per subscription: the failures of all
\* the deliveries to the subscription use up one budget.
OnAttemptFailedSharedCounter(d, rnd) ==
    LET failures == { p \in (1 .. Len(deliveries)) \X (1 .. (DefaultMaxRetries + 1)) :
                         /\ deliveries[p[1]].sub = d.sub
                         /\ p[2] <= Len(deliveries[p[1]].results)
                         /\ deliveries[p[1]].results[p[2]] = "fail" }
        a == Cardinality(failures) + 1
        d1 == [d EXCEPT !.attempt = a, !.results = Append(@, "fail")]
    IN  IF a > subs[d.sub].maxRetries
        THEN HandleFinalFailure(d1)
        ELSE SleepAfter(d1, a, rnd)

\* The catch block of the retry loop.
OnAttemptFailed(d, rnd) ==
    LET a == d.attempt + 1
        d1 == [d EXCEPT !.attempt = a, !.results = Append(@, "fail")]
    IN  IF a > subs[d.sub].maxRetries
        THEN HandleFinalFailure(d1)
        ELSE SleepAfter(d1, a, rnd)

\* The success path without its return: the loop goes on.
OnAttemptSucceededNoReturn(d) ==
    [RecordDeliveryMetrics([d EXCEPT !.results = Append(@, "ok")], "success") EXCEPT
        !.spanEnds = @ + 1,
        !.pc = "sleeping"]

\* The success path of the retry loop.
OnAttemptSucceeded(d) ==
    [RecordDeliveryMetrics([d EXCEPT !.results = Append(@, "ok")], "success") EXCEPT
        !.spanEnds = @ + 1,
        !.pc = "done"]

\* One evaluation of the loop condition followed by handler(event).
RunLoop(d, kind, rnd) ==
    IF d.attempt <= subs[d.sub].maxRetries
    THEN LET d1 == [d EXCEPT !.calls = Append(@, d.ev), !.sleep = NoSleep]
         IN  IF kind = "throw"
             THEN OnAttemptFailed([d1 EXCEPT !.caught = HandlerError], rnd)
             ELSE [d1 EXCEPT !.pc = "awaitHandler"]
    ELSE [d EXCEPT !.pc = "done", !.sleep = NoSleep]

\* A listener that runs handleEvent in a later task, not inside emit.
HandleEventDeferred(s, ev, kind, rnd) ==
    [NewDelivery(s, ev) EXCEPT !.pc = "sleeping"]

\* A listener that holds an event back while an earlier delivery to its
\* subscription is unfinished.
HandleEventInTurn(s, ev, kind, rnd) ==
    IF \E i \in 1 .. Len(deliveries) :
          deliveries[i].sub = s /\ deliveries[i].pc # "done"
    THEN NewDelivery(s, ev)
    ELSE RunLoop(NewDelivery(s, ev), kind, rnd)

\* handleEvent, up to its first suspension.
HandleEvent(s, ev, kind, rnd) == RunLoop(NewDelivery(s, ev), kind, rnd)

\* ------------------------------------------------------------------- emit
SubIndexes == [i \in 1 .. Len(subs) |-> i]

IsListenerAnyType(i, type) == TRUE

IsListener(i, type) == subs[i].type = type

\* The listeners of a type, the one added last first.
ListenersNewestFirst(type) ==
    LET ls == SelectSeq(SubIndexes, LAMBDA i : IsListener(i, type))
    IN  [j \in 1 .. Len(ls) |-> ls[Len(ls) + 1 - j]]

\* The listeners of a type, in the order in which on() added them.
Listeners(type) == SelectSeq(SubIndexes, LAMBDA i : IsListener(i, type))

\* emit over listeners that let a synchronous throw of the handler escape:
\* the first throw ends the dispatch.
EmitUnguarded(type, ev, calls) ==
    LET ls == Listeners(type)
        throwers == { j \in 1 .. Len(ls) : calls[j].kind = "throw" }
        last == IF throwers = {} THEN Len(ls)
                ELSE CHOOSE j \in throwers : \A k \in throwers : j <= k
    IN  [ started |-> [j \in 1 .. last |->
                          HandleEvent(ls[j], ev, calls[j].kind, calls[j].rnd)],
          threw |-> IF throwers # {} THEN HandlerError
                    ELSE IF type = "error" /\ Len(ls) = 0 THEN UnhandledError
                    ELSE NoError ]

\* EventEmitter.emit(type, event): the listeners of the type are called in
\* registration order; an 'error' event without a listener throws.
Emit(type, ev, calls) ==
    LET ls == Listeners(type)
    IN  [ started |-> [j \in 1 .. Len(ls) |->
                          HandleEvent(ls[j], ev, calls[j].kind, calls[j].rnd)],
          threw |-> IF type = "error" /\ Len(ls) = 0
                    THEN UnhandledError ELSE NoError ]

\* putEvent waiting for the deliveries it started.
PublishOutcomeAwaits(e) ==
    IF e.threw # NoError THEN [result |-> "threw", error |-> e.threw]
    ELSE IF \E j \in 1 .. Len(e.started) : e.started[j].pc # "done"
         THEN [result |-> "awaiting", error |-> NoError]
         ELSE [result |-> "returned", error |-> NoError]

\* putEvent passing on the failure of a handler that threw inside emit.
PublishOutcomeRethrows(e) ==
    IF e.threw # NoError THEN [result |-> "threw", error |-> e.threw]
    ELSE IF \E j \in 1 .. Len(e.started) : Len(e.started[j].results) > 0
         THEN [result |-> "threw", error |-> HandlerError]
         ELSE [result |-> "returned", error |-> NoError]

\* How putEvent ends once emit is over: it rethrows what emit threw and
\* returns otherwise, whatever state the started deliveries are in.
PublishOutcome(e) ==
    IF e.threw # NoError THEN [result |-> "threw", error |-> e.threw]
    ELSE [result |-> "returned", error |-> NoError]

\* ---------------------------------------------------------------- actions
NoBusMetrics ==
    [ published |-> 0, sizes |-> <<>>, logPublish |-> <<>>,
      spansOpened |-> 0, spansEnded |-> 0, spanErrors |-> 0 ]

Init ==
    /\ bus \in { NimbusEventBus(ShortRetry, lp) : lp \in LogPublishKinds }
    /\ subs = <<>>
    /\ pubs = <<>>
    /\ deliveries = <<>>
    /\ busMetrics = NoBusMetrics
    /\ router = [logInput |-> "none", logOutput |-> "none"]
    /\ handlers = [t \in {} |-> 0]
    /\ lastRegister = [t \in {} |-> 0]
    /\ routes = <<>>
    /\ legacy = [handlerMap |-> [t \in {} |-> 0], inputLogFunc |-> "none"]
    /\ legacyCalls = <<>>
    /\ created = NotCreated
    /\ NoRegistry

\* The subscription keeps, for the properties, the options it was made with.
SubscribeEvent(type, onError, options) ==
    /\ Len(subs) < MaxSubs
    /\ subs' = Append(subs,
          [ type |-> type, onError |-> onError, options |-> options,
            maxRetries |-> Nullish(options, "maxRetries", bus.maxRetries),
            baseDelay  |-> Nullish(options, "baseDelay", bus.baseDelay),
            maxDelay   |-> Nullish(options, "maxDelay", bus.maxDelay),
            useJitter  |-> Nullish(options, "useJitter", bus.useJitter) ])
    /\ UNCHANGED <<bus, pubs, deliveries, busMetrics, nonBusVars>>

\* A logPublish that is called for one event only.
LogPublishFirstOnly(m, ev) ==
    IF bus.logPublish # "none" /\ m.logPublish = <<>>
    THEN [m EXCEPT !.logPublish = Append(@, ev)]
    ELSE m

\* if (this._logPublish) { this._logPublish(event); }
LogPublish(m, ev) ==
    IF bus.logPublish # "none"
    THEN [m EXCEPT !.logPublish = Append(@, ev)]
    ELSE m

\* A catch block that leaves the span open.
PublishFailedSpanOpen(m) == [m EXCEPT !.spanErrors = @ + 1]

\* The catch and finally blocks of putEvent: the span is marked as failed
\* and ended.
PublishFailed(m) == [m EXCEPT !.spanErrors = @ + 1, !.spansEnded = @ + 1]

PutEvent(type, text, calls) ==
    /\ Len(pubs) < MaxEvents
    /\ Len(deliveries) + Len(Listeners(type)) <= MaxDeliveries
    /\ LET ev == Len(pubs) + 1
           call == [ type |-> type, text |-> text, nsubs |-> Len(subs), added |-> 0 ]
           sizeError == ValidateEventSize(text)
           m1 == [busMetrics EXCEPT
                     !.spansOpened = @ + 1,
                     !.published = @ + 1,
                     !.sizes = Append(@, Utf8Length(text))]
           m2 == LogPublish(m1, ev)
           failed(m) == PublishFailed(m)
       IN  IF sizeError # NoError
           THEN /\ pubs' = Append(pubs, call @@ [result |-> "threw", error |-> sizeError])
                /\ UNCHANGED <<deliveries, busMetrics>>
           ELSE IF bus.logPublish = "throws"
           THEN /\ pubs' = Append(pubs, call @@ [result |-> "threw", error |-> LogPublishError])
                /\ busMetrics' = failed(m2)
                /\ UNCHANGED deliveries
           ELSE LET e == Emit(type, ev, calls)
                    out == PublishOutcome(e)
                IN  /\ deliveries' = deliveries \o e.started
                    /\ pubs' = Append(pubs, call @@ out)
                    /\ busMetrics' = IF out.result = "threw"
                                     THEN failed(m2)
                                     ELSE [m2 EXCEPT !.spansEnded = @ + 1]
    /\ UNCHANGED <<bus, subs, nonBusVars>>

\* An emit that reads the list of listeners anew for every call it makes: it
\* also calls the listener added by the handler it called first.
EmitLiveList(type, ev, calls) ==
    LET e == Emit(type, ev, calls)
    IN  [e EXCEPT !.started = Append(@, [NewDelivery(Len(subs) + 1, ev) EXCEPT
                                            !.calls = << ev >>,
                                            !.pc = "awaitHandler"])]

\* EventEmitter.emit while a listener adds a listener for the type: emit
\* calls the listeners that were registered when it was called.
EmitListCopy(type, ev, calls) == Emit(type, ev, calls)

\* putEvent of an event within the size limit whose first handler, called by
\* emit, calls subscribeEvent for the type of the event before it returns its
\* promise.
PutEventWhileSubscribing(type, text, calls, c) ==
    /\ Len(pubs) < MaxEvents
    /\ Len(subs) < MaxSubs
    /\ Len(Listeners(type)) >= 1
    /\ Len(deliveries) + Len(Listeners(type)) <= MaxDeliveries
    /\ ValidateEventSize(text) = NoError
    /\ bus.logPublish # "throws"
    /\ LET ev == Len(pubs) + 1
           call == [ type |-> type, text |-> text, nsubs |-> Len(subs),
                     added |-> Len(subs) + 1 ]
           m1 == [busMetrics EXCEPT
                     !.spansOpened = @ + 1,
                     !.published = @ + 1,
                     !.sizes = Append(@, Utf8Length(text))]
           m2 == LogPublish(m1, ev)
           e == EmitListCopy(type, ev, calls)
       IN  /\ subs' = Append(subs,
                 [ type |-> type, onError |-> c.onError, options |-> c.options,
                   maxRetries |-> Nullish(c.options, "maxRetries", bus.maxRetries),
                   baseDelay  |-> Nullish(c.options, "baseDelay", bus.baseDelay),
                   maxDelay   |-> Nullish(c.options, "maxDelay", bus.maxDelay),
                   useJitter  |-> Nullish(c.options, "useJitter", bus.useJitter) ])
           /\ deliveries' = deliveries \o e.started
           /\ pubs' = Append(pubs, call @@ PublishOutcome(e))
           /\ busMetrics' = [m2 EXCEPT !.spansEnded = @ + 1]
    /\ UNCHANGED <<bus, nonBusVars>>

\* The promise returned by handler(event) settles.
HandlerSettles(i, settle) ==
    /\ i \in 1 .. Len(deliveries)
    /\ deliveries[i].pc = "awaitHandler"
    /\ deliveries' = [deliveries EXCEPT ![i] =
          IF settle.outcome = "ok" THEN OnAttemptSucceeded(@)
          ELSE OnAttemptFailed([@ EXCEPT !.caught = Caught(settle.outcome)],
                               settle.rnd)]
    /\ UNCHANGED <<bus, subs, pubs, busMetrics, nonBusVars>>

\* The retry timer of a sleeping delivery fires.
TimerFires(i, call) ==
    /\ i \in 1 .. Len(deliveries)
    /\ deliveries[i].pc = "sleeping"
    /\ deliveries' = [deliveries EXCEPT ![i] = RunLoop(@, call.kind, call.rnd)]
    /\ UNCHANGED <<bus, subs, pubs, busMetrics, nonBusVars>>

\* The catch block of handleEvent.
ErrorSink(i) ==
    /\ i \in 1 .. Len(deliveries)
    /\ deliveries[i].pc = "rejected"
    /\ deliveries' = [deliveries EXCEPT ![i] =
          IF subs[@.sub].onError # "none"
          THEN [@ EXCEPT !.onErrorCalls = Append(@, [error |-> deliveries[i].sinkError,
                                                      event |-> deliveries[i].ev]),
                         !.pc = "done"]
          ELSE [@ EXCEPT !.errorLogs = @ + 1, !.pc = "done"]]
    /\ UNCHANGED <<bus, subs, pubs, busMetrics, nonBusVars>>

DeliverySteps ==
    \/ \E i \in 1 .. MaxDeliveries, st \in SettleChoices : HandlerSettles(i, st)
    \/ \E i \in 1 .. MaxDeliveries, c \in CallChoices : TimerFires(i, c)
    \/ \E i \in 1 .. MaxDeliveries : ErrorSink(i)

\* Publishing: both event types, both texts, every kind of logPublish, on a
\* bus with the short retry policy, which has no jitter.
Next ==
    \/ \E c \in PublishSubscriptions : SubscribeEvent(c.type, c.onError, c.options)
    \/ \E t \in EventTypes, x \in EventTexts :
          \E cs \in [1 .. Len(Listeners(t)) -> NoJitter(CallChoices)] : PutEvent(t, x, cs)
    \/ \E i \in 1 .. MaxDeliveries, st \in NoJitter(SettleChoices) : HandlerSettles(i, st)
    \/ \E i \in 1 .. MaxDeliveries, c \in NoJitter(CallChoices) : TimerFires(i, c)
    \/ \E i \in 1 .. MaxDeliveries : ErrorSink(i)

Spec == Init /\ [][Next]_vars

\* Subscribing late: one event type and one kind of subscription, made
\* between the steps of the bus or by a handler while emit dispatches.
LateSubscriptions == { [type |-> "a", onError |-> "returns", options |-> NoOptions] }

NextLate ==
    \/ \E c \in LateSubscriptions : SubscribeEvent(c.type, c.onError, c.options)
    \/ \E x \in EventTexts :
          \E cs \in [1 .. Len(Listeners("a")) -> NoJitter(CallChoices)] : PutEvent("a", x, cs)
    \/ \E c \in LateSubscriptions :
          \E cs \in [1 .. Len(Listeners("a")) -> NoJitter(CallChoices)] :
              PutEventWhileSubscribing("a", LimitText, cs, c)
    \/ \E i \in 1 .. MaxDeliveries, st \in NoJitter(SettleChoices) : HandlerSettles(i, st)
    \/ \E i \in 1 .. MaxDeliveries, c \in NoJitter(CallChoices) : TimerFires(i, c)
    \/ \E i \in 1 .. MaxDeliveries : ErrorSink(i)

SpecLate == Init /\ [][NextLate]_vars

\* Retrying: every retry policy, on one event type.
InitRetry ==
    /\ bus \in { NimbusEventBus(o, "none") : o \in BusOptionChoices }
    /\ subs = <<>>
    /\ pubs = <<>>
    /\ deliveries = <<>>
    /\ busMetrics = NoBusMetrics
    /\ router = [logInput |-> "none", logOutput |-> "none"]
    /\ handlers = [t \in {} |-> 0]
    /\ lastRegister = [t \in {} |-> 0]
    /\ routes = <<>>
    /\ legacy = [handlerMap |-> [t \in {} |-> 0], inputLogFunc |-> "none"]
    /\ legacyCalls = <<>>
    /\ created = NotCreated
    /\ NoRegistry

NextRetry ==
    \/ \E c \in RetrySubscriptions : SubscribeEvent(c.type, c.onError, c.options)
    \/ \E cs \in [1 .. Len(Listeners("a")) -> CallChoices] : PutEvent("a", LimitText, cs)
    \/ DeliverySteps

SpecRetry == InitRetry /\ [][NextRetry]_vars

\* Every handler invocation terminates, every timer set by setTimeout fires
\* and every rejected promise of _processEvent reaches the catch block of
\* handleEvent.
DeliveryFairness ==
    \A i \in 1 .. MaxDeliveries :
        /\ WF_vars(\E st \in SettleChoices : HandlerSettles(i, st))
        /\ WF_vars(\E c \in CallChoices : TimerFires(i, c))
        /\ WF_vars(ErrorSink(i))

\* Termination is explored on the bus with the short retry policy, with a
\* subscription that inherits it and logs the final failure and one with
\* two retries and an onError callback, and without jitter.
TerminationSubscriptions ==
    { [type |-> "a", onError |-> "none", options |-> NoOptions],
      [type |-> "a", onError |-> "returns",
       options |-> [maxRetries |-> 2, baseDelay |-> 10, maxDelay |-> 15]] }

InitTermination ==
    /\ InitRetry
    /\ bus = NimbusEventBus(ShortRetry, "none")

NextTermination ==
    \/ \E c \in TerminationSubscriptions : SubscribeEvent(c.type, c.onError, c.options)
    \/ \E cs \in [1 .. Len(Listeners("a")) -> NoJitter(CallChoices)] : PutEvent("a", LimitText, cs)
    \/ \E i \in 1 .. MaxDeliveries, st \in NoJitter(SettleChoices) : HandlerSettles(i, st)
    \/ \E i \in 1 .. MaxDeliveries, c \in NoJitter(CallChoices) : TimerFires(i, c)
    \/ \E i \in 1 .. MaxDeliveries : ErrorSink(i)

SpecTermination == InitTermination /\ [][NextTermination]_vars /\ DeliveryFairness

\* The effective retry policy and the error sink: subscriptions with and
\* without options on a bus with the default policy or the short one, and
\* handlers that fail with an Error or with another value.
NextPolicy ==
    \/ \E c \in PolicySubscriptions : SubscribeEvent(c.type, c.onError, c.options)
    \/ \E cs \in [1 .. Len(Listeners("a")) -> CallChoices] : PutEvent("a", LimitText, cs)
    \/ \E i \in 1 .. MaxDeliveries, st \in SettleChoices \cup RejectionChoices :
          HandlerSettles(i, st)
    \/ \E i \in 1 .. MaxDeliveries, c \in CallChoices : TimerFires(i, c)
    \/ \E i \in 1 .. MaxDeliveries : ErrorSink(i)

SpecPolicy == InitRetry /\ [][NextPolicy]_vars

\* =================================================================
\* Message router
\* =================================================================
NoHandlers == [t \in {} |-> 0]

NoMessage == [type |-> Undefined, data |-> Undefined, extra |-> "absent"]
NoValue == [by |-> "none", of |-> NoMessage]
NoIssues == <<>>

NoTypeError ==
    [class |-> "InvalidInputException",
     message |-> "The provided input has no type attribute", issues |-> NoIssues]
NotFoundError(type) ==
    [class |-> "NotFoundException", message |-> "Message handler not found",
     issues |-> NoIssues]
\* The exception without fromZodError.
InvalidInputErrorPlain(issues) ==
    [class |-> "InvalidInputException", message |-> "The provided input is invalid",
     issues |-> NoIssues]

InvalidInputError(issues) ==
    [class |-> "InvalidInputException", message |-> "The provided input is invalid",
     issues |-> issues]
\* What a throwing log callback and a failing handler throw.
LogInputError == [class |-> "Error", message |-> "logInput", issues |-> NoIssues]
LogOutputError == [class |-> "Error", message |-> "logOutput", issues |-> NoIssues]
HandlerFailure == [class |-> "NotFoundException", message |-> "Not found", issues |-> NoIssues]
NoFailure == [class |-> "none", message |-> "", issues |-> NoIssues]

MessageRouter(options) ==
    [ logInput  |-> Nullish(options, "logInput", "none"),
      logOutput |-> Nullish(options, "logOutput", "none") ]

\* input?.type === null
IsNull(v) == v = "null"

\* !input?.type
Falsy(v) == v \in {Undefined, ""}

\* safeParse of schemas made with passthrough: the undeclared attributes are
\* kept.
SafeParsePassthrough(schema, input) ==
    IF schema = "numberData" /\ input.data # "number"
    THEN [ success |-> FALSE, data |-> NoMessage,
           issues |-> << [ code |-> "invalid_type", expected |-> "number",
                           received |-> input.data, path |-> <<"data", "aNumber">> ] >> ]
    ELSE [ success |-> TRUE, data |-> input, issues |-> NoIssues ]

\* schema.safeParse(input) for the two schemas: both are z.object schemas,
\* which drop the attributes they do not declare; numberData wants
\* data.aNumber to be a number.
SafeParse(schema, input) ==
    IF schema = "numberData" /\ input.data # "number"
    THEN [ success |-> FALSE, data |-> NoMessage,
           issues |-> << [ code |-> "invalid_type", expected |-> "number",
                           received |-> input.data, path |-> <<"data", "aNumber">> ] >> ]
    ELSE [ success |-> TRUE, data |-> [input EXCEPT !.extra = "absent"],
           issues |-> NoIssues ]

\* The value handler h returns for message m.
HandlerValue(h, m) == [by |-> h, of |-> m]

NoRegistration == [handler |-> "none", schema |-> "none"]

\* The state of one route call. registered is the registry entry of the
\* input's type when route was called, kept for the properties.
NewRouteOn(hs, input) ==
    [ input |-> input, pc |-> "start", handler |-> "none", calls |-> <<>>,
      registered |-> IF input.type \in DOMAIN hs
                     THEN hs[input.type] ELSE NoRegistration,
      returned |-> NoValue, result |-> NoValue, error |-> NoFailure,
      routed |-> <<>>, spanEnds |-> 0, logInput |-> 0, logOutput |-> <<>> ]

NewRoute(input) == NewRouteOn(handlers, input)

\* The catch block translating what it caught into a GenericException.
RouteFailsWrapped(r, error) ==
    [r EXCEPT !.routed = Append(@, "error"),
              !.error = [class |-> "GenericException", message |-> error.message,
                         issues |-> NoIssues],
              !.spanEnds = @ + 1, !.pc = "rejected"]

\* The catch block without its counter.
RouteFailsUncounted(r, error) ==
    [r EXCEPT !.error = error, !.spanEnds = @ + 1, !.pc = "rejected"]

\* The catch and finally blocks of route.
RouteFails(r, error) ==
    [r EXCEPT !.routed = Append(@, "error"), !.error = error,
              !.spanEnds = @ + 1, !.pc = "rejected"]

\* route without its return statement.
RouteReturnsNothing(r, value) ==
    [r EXCEPT !.routed = Append(@, "success"), !.result = NoValue,
              !.spanEnds = @ + 1, !.pc = "resolved"]

\* The end of the try block of route, without a finally block.
RouteReturnsSpanOpen(r, value) ==
    [r EXCEPT !.routed = Append(@, "success"), !.result = value, !.pc = "resolved"]

\* The end of the try block of route, and its finally block.
RouteReturns(r, value) ==
    [r EXCEPT !.routed = Append(@, "success"), !.result = value,
              !.spanEnds = @ + 1, !.pc = "resolved"]

\* route counting the success before it calls logOutput.
RouteAfterHandlerOnCountsFirst(rt, r, outcome) ==
    IF outcome = "fail" THEN RouteFails(r, HandlerFailure)
    ELSE LET value == HandlerValue(r.handler, r.calls[Len(r.calls)].arg)
             r1 == [r EXCEPT !.returned = value, !.routed = Append(@, "success")]
             r2 == IF rt.logOutput # "none"
                   THEN [r1 EXCEPT !.logOutput = Append(@, value)]
                   ELSE r1
         IN  IF rt.logOutput = "throws"
             THEN RouteFails(r2, LogOutputError)
             ELSE [r2 EXCEPT !.result = value, !.spanEnds = @ + 1, !.pc = "resolved"]

\* route from the settling of the handler's promise on, on the router with
\* fields rt.
RouteAfterHandlerOn(rt, r, outcome) ==
    IF outcome = "fail" THEN RouteFails(r, HandlerFailure)
    ELSE LET value == HandlerValue(r.handler, r.calls[Len(r.calls)].arg)
             r1 == [r EXCEPT !.returned = value]
             r2 == IF rt.logOutput # "none"
                   THEN [r1 EXCEPT !.logOutput = Append(@, value)]
                   ELSE r1
         IN  IF rt.logOutput = "throws"
             THEN RouteFails(r2, LogOutputError)
             ELSE RouteReturns(r2, value)

\* route looking its handler up again when the promise has settled.
RouteAfterHandlerRereads(r, outcome) ==
    RouteAfterHandlerOn(router, [r EXCEPT !.handler = handlers[r.input.type].handler],
                        outcome)

RouteAfterHandler(r, outcome) == RouteAfterHandlerOn(router, r, outcome)

\* route looking the type up before it checks that there is one.
RouteUntilHandlerOnLookupFirst(rt, hs, input, kind) ==
    LET r0 == NewRouteOn(hs, input)
        r1 == IF rt.logInput # "none" THEN [r0 EXCEPT !.logInput = @ + 1] ELSE r0
    IN  IF rt.logInput = "throws" THEN RouteFails(r1, LogInputError)
        ELSE IF input.type \notin DOMAIN hs
             THEN RouteFails(r1, NotFoundError(input.type))
        ELSE IF Falsy(input.type) THEN RouteFails(r1, NoTypeError)
        ELSE LET registration == hs[input.type]
                 validationResult == SafeParse(registration.schema, input)
             IN  IF ~validationResult.success
                 THEN RouteFails(r1, InvalidInputError(validationResult.issues))
                 ELSE LET r2 == [r1 EXCEPT
                                    !.handler = registration.handler,
                                    !.calls = Append(@, [handler |-> registration.handler,
                                                         arg |-> validationResult.data])]
                      IN  IF kind = "throw"
                          THEN RouteFails(r2, HandlerFailure)
                          ELSE [r2 EXCEPT !.pc = "awaitHandler"]

\* route up to the first suspension, on the router with fields rt and
\* registry hs: logInput, the three checks and the call of the handler, which
\* returns a pending promise or throws.
RouteUntilHandlerOn(rt, hs, input, kind) ==
    LET r0 == NewRouteOn(hs, input)
        r1 == IF rt.logInput # "none" THEN [r0 EXCEPT !.logInput = @ + 1] ELSE r0
    IN  IF rt.logInput = "throws" THEN RouteFails(r1, LogInputError)
        ELSE IF Falsy(input.type) THEN RouteFails(r1, NoTypeError)
        ELSE IF input.type \notin DOMAIN hs
             THEN RouteFails(r1, NotFoundError(input.type))
        ELSE LET registration == hs[input.type]
                 validationResult == SafeParse(registration.schema, input)
             IN  IF ~validationResult.success
                 THEN RouteFails(r1, InvalidInputError(validationResult.issues))
                 ELSE LET r2 == [r1 EXCEPT
                                    !.handler = registration.handler,
                                    !.calls = Append(@, [handler |-> registration.handler,
                                                         arg |-> validationResult.data])]
                      IN  IF kind = "throw"
                          THEN RouteFails(r2, HandlerFailure)
                          ELSE [r2 EXCEPT !.pc = "awaitHandler"]

RouteUntilHandler(input, kind) == RouteUntilHandlerOn(router, handlers, input, kind)

\* A set that keeps the entry the map already has for the key.
HandlersSetIfAbsent(hs, messageType, registration) ==
    IF messageType \in DOMAIN hs THEN hs ELSE (messageType :> registration) @@ hs

\* this._handlers.set(messageType, { handler, schema })
HandlersSet(hs, messageType, registration) == (messageType :> registration) @@ hs

Register(messageType, handler, schema) ==
    /\ handlers' = HandlersSet(handlers, messageType,
                               [handler |-> handler, schema |-> schema])
    /\ lastRegister' = [t \in DOMAIN lastRegister \cup {messageType} |->
                           IF t = messageType
                           THEN [handler |-> handler, schema |-> schema]
                           ELSE lastRegister[t]]
    /\ UNCHANGED <<router, routes, nonRouterVars>>

Route(input, kind) ==
    /\ Len(routes) < MaxRoutes
    /\ routes' = Append(routes,
          RouteUntilHandler(input, kind) @@
          [latest |-> IF input.type \in DOMAIN lastRegister
                      THEN lastRegister[input.type] ELSE NoRegistration])
    /\ UNCHANGED <<router, handlers, lastRegister, nonRouterVars>>

\* The promise returned by a route handler settles.
RouteHandlerSettles(i, outcome) ==
    /\ i \in 1 .. Len(routes)
    /\ routes[i].pc = "awaitHandler"
    /\ routes' = [routes EXCEPT ![i] = RouteAfterHandler(@, outcome)]
    /\ UNCHANGED <<router, handlers, lastRegister, nonRouterVars>>

NoBus ==
    /\ bus = NimbusEventBus(NoOptions, "none")
    /\ subs = <<>>
    /\ pubs = <<>>
    /\ deliveries = <<>>
    /\ busMetrics = NoBusMetrics

InitRouter ==
    /\ router \in { MessageRouter(o) : o \in RouterOptionChoices }
    /\ handlers = NoHandlers
    /\ lastRegister = NoHandlers
    /\ routes = <<>>
    /\ NoBus
    /\ legacy = [handlerMap |-> [t \in {} |-> 0], inputLogFunc |-> "none"]
    /\ legacyCalls = <<>>
    /\ created = NotCreated
    /\ NoRegistry

NextRouter ==
    \/ \E g \in Registrations : Register(g.type, g.handler, g.schema)
    \/ \E x \in RouteInputs, k \in CallKinds : Route(x, k)
    \/ \E i \in 1 .. MaxRoutes, oc \in {"ok", "fail"} : RouteHandlerSettles(i, oc)

SpecRouter == InitRouter /\ [][NextRouter]_vars

\* =================================================================
\* Legacy router (createRouter)
\* =================================================================
\* Errors of the legacy router; stack names where the error was created.
LegacyNoError == [class |-> "none", message |-> "", issues |-> NoIssues, stack |-> "none"]
LegacyNotFound ==
    [class |-> "NotFoundException", message |-> "Route handler not found",
     issues |-> NoIssues, stack |-> "router"]
LegacyLogError == [class |-> "Error", message |-> "inputLogFunc", issues |-> NoIssues,
                   stack |-> "inputLogFunc"]
\* What a throwing handler throws and a rejecting handler rejects with.
LegacyHandlerFailure ==
    [class |-> "NotFoundException", message |-> "Not found", issues |-> NoIssues,
     stack |-> "handler"]
\* The ZodError of a failed parse, and the one a handler throws.
ZodError(issues, stack) ==
    [class |-> "ZodError", message |-> "zod", issues |-> issues, stack |-> stack]
\* Reading a property of undefined.
TypeError ==
    [class |-> "TypeError", message |-> "Cannot read properties of undefined",
     issues |-> NoIssues, stack |-> "router"]

\* new InvalidInputException().fromZodError(error)
FromZodError(error) ==
    [class |-> "InvalidInputException", message |-> "Invalid input",
     issues |-> error.issues, stack |-> error.stack]

\* A GenericException that keeps its own message and stack.
FromErrorFresh(error) ==
    [class |-> "GenericException", message |-> "An error occurred",
     issues |-> NoIssues, stack |-> "router"]

\* new GenericException().fromError(error)
FromError(error) ==
    [class |-> "GenericException", message |-> error.message,
     issues |-> NoIssues, stack |-> error.stack]

\* The properties every object inherits from Object.prototype.
ObjectPrototypeKeys == {"constructor"}

\* handlerMap[key]: the entry, an inherited member (a function, which has
\* neither a handler nor an inputType), or undefined.
NoEntry == [kind |-> "undefined", handler |-> Undefined, inputType |-> Undefined]
ObjectGet(map, key) ==
    IF key \in DOMAIN map
    THEN [kind |-> "entry", handler |-> map[key].handler, inputType |-> map[key].inputType]
    ELSE IF key \in ObjectPrototypeKeys
         THEN [kind |-> "inherited", handler |-> Undefined, inputType |-> Undefined]
         ELSE NoEntry

NewLegacyCall(input) ==
    [ input |-> input, pc |-> "start", calls |-> <<>>, logged |-> 0,
      result |-> NoValue, error |-> LegacyNoError, thrown |-> LegacyNoError ]

LegacyThrows(c, error) == [c EXCEPT !.pc = "threw", !.error = error]

\* The catch block of the legacy router.
LegacyCatch(c, error) ==
    IF error.class = "ZodError"
    THEN LegacyThrows(c, FromZodError(error))
    ELSE LegacyThrows(c, FromError(error))

\* !handlerMap[input.type]
LegacyMissing(entry) == entry.kind = "undefined"

\* router(input): it throws, or returns the promise of the handler.
LegacyRouter(input, kind) ==
    LET c0 == NewLegacyCall(input)
        c1 == IF legacy.inputLogFunc # "none" THEN [c0 EXCEPT !.logged = @ + 1] ELSE c0
        entry == ObjectGet(legacy.handlerMap, input.type)
    IN  IF legacy.inputLogFunc = "throws" THEN LegacyThrows(c1, LegacyLogError)
        ELSE IF LegacyMissing(entry) THEN LegacyThrows(c1, LegacyNotFound)
        ELSE IF entry.inputType = Undefined THEN LegacyCatch(c1, TypeError)
        ELSE LET parsed == SafeParse(entry.inputType, input)
             IN  IF ~parsed.success
                 THEN LegacyCatch(c1, ZodError(parsed.issues, "parse"))
                 ELSE LET c2 == [c1 EXCEPT !.calls = Append(@, [handler |-> entry.handler,
                                                                  arg |-> parsed.data])]
                          threw(error) == LegacyCatch([c2 EXCEPT !.thrown = error], error)
                      IN  CASE kind = "throw" -> threw(LegacyHandlerFailure)
                            [] kind = "throwZod" -> threw(ZodError(NoIssues, "handler"))
                            [] OTHER -> [c2 EXCEPT !.pc = "awaitHandler"]

LegacyRoute(input, kind) ==
    /\ Len(legacyCalls) < MaxRoutes
    /\ legacyCalls' = Append(legacyCalls, LegacyRouter(input, kind))
    /\ UNCHANGED <<legacy, nonLegacyVars>>

\* The promise the handler returned, which is the promise the router
\* returned, settles.
LegacyHandlerSettles(i, outcome) ==
    /\ i \in 1 .. Len(legacyCalls)
    /\ legacyCalls[i].pc = "awaitHandler"
    /\ LET call == legacyCalls[i].calls[1]
       IN  legacyCalls' = [legacyCalls EXCEPT ![i] =
              IF outcome = "ok"
              THEN [@ EXCEPT !.pc = "resolved",
                             !.result = HandlerValue(call.handler, call.arg)]
              ELSE [@ EXCEPT !.pc = "rejected", !.error = LegacyHandlerFailure]]
    /\ UNCHANGED <<legacy, nonLegacyVars>>

InitLegacy ==
    /\ legacy \in [handlerMap : LegacyHandlerMaps, inputLogFunc : LogKinds]
    /\ legacyCalls = <<>>
    /\ created = NotCreated
    /\ NoBus
    /\ router = MessageRouter(NoOptions)
    /\ handlers = NoHandlers
    /\ lastRegister = NoHandlers
    /\ routes = <<>>
    /\ NoRegistry

NextLegacy ==
    \/ \E x \in LegacyInputs, k \in LegacyCallKinds : LegacyRoute(x, k)
    \/ \E i \in 1 .. MaxRoutes, oc \in {"ok", "fail"} : LegacyHandlerSettles(i, oc)

SpecLegacy == InitLegacy /\ [][NextLegacy]_vars

\* =================================================================
\* Registries of named instances (setupEventBus / getEventBus,
\* setupRouter / getRouter)
\* =================================================================
\* An instance is identified by its position in busInstances or
\* routerInstances, the order of construction.
SetupBusOptions == { ShortRetry }
SetupRouterOptions == { [logInput |-> "returns", logOutput |-> "returns"] }

\* new NimbusEventBus({ ...options, name })
NewBusInstance(name, options) ==
    [ name |-> name,
      config |-> NimbusEventBus(options, Nullish(options, "logPublish", "none")),
      listeners |-> <<>> ]

\* A router constructed with the handlers of the instance registered under
\* its name.
NewRouterInstanceInheriting(name, options) ==
    [ name |-> name, config |-> MessageRouter(options),
      handlers |-> IF name \in DOMAIN routerRegistry
                   THEN routerInstances[routerRegistry[name]].handlers
                   ELSE NoHandlers ]

\* new MessageRouter({ ...options, name })
NewRouterInstance(name, options) ==
    [ name |-> name, config |-> MessageRouter(options), handlers |-> NoHandlers ]

\* A set that keeps an entry the map already has.
RegistrySetIfAbsent(registry, name, instance) ==
    IF name \in DOMAIN registry THEN registry ELSE (name :> instance) @@ registry

\* registry.set(name, instance)
RegistrySet(registry, name, instance) == (name :> instance) @@ registry

\* A get that hands out the instance it constructs without registering it.
GetOrCreateUnregistered(registry, name, next) ==
    IF name \in DOMAIN registry
    THEN [registry |-> registry, instance |-> registry[name], constructed |-> FALSE]
    ELSE [registry |-> registry, instance |-> next, constructed |-> TRUE]

\* The body of getEventBus and of getRouter: the registered instance, or a
\* new one (the next to be constructed), which is registered.
GetOrCreate(registry, name, next) ==
    IF name \in DOMAIN registry
    THEN [registry |-> registry, instance |-> registry[name], constructed |-> FALSE]
    ELSE [registry |-> RegistrySet(registry, name, next), instance |-> next,
          constructed |-> TRUE]

LogEntry(op, kind, name, instance, constructed) ==
    [op |-> op, kind |-> kind, name |-> name, instance |-> instance,
     constructed |-> constructed]

SetupEventBus(name, options) ==
    /\ Len(registryLog) < MaxRegistryOps
    /\ LET next == Len(busInstances) + 1
       IN  /\ busInstances' = Append(busInstances, NewBusInstance(name, options))
           /\ eventBusRegistry' = RegistrySet(eventBusRegistry, name, next)
           /\ registryLog' = Append(registryLog, LogEntry("setup", "bus", name, next, TRUE))
    /\ UNCHANGED <<routerRegistry, routerInstances, instanceCalls, nonRegistryVars>>

GetEventBus(name) ==
    /\ Len(registryLog) < MaxRegistryOps
    /\ LET next == Len(busInstances) + 1
           got == GetOrCreate(eventBusRegistry, name, next)
       IN  /\ busInstances' = IF got.constructed
                              THEN Append(busInstances, NewBusInstance(name, NoOptions))
                              ELSE busInstances
           /\ eventBusRegistry' = got.registry
           /\ registryLog' = Append(registryLog,
                 LogEntry("get", "bus", name, got.instance, got.constructed))
    /\ UNCHANGED <<routerRegistry, routerInstances, instanceCalls, nonRegistryVars>>

SetupRouter(name, options) ==
    /\ Len(registryLog) < MaxRegistryOps
    /\ LET next == Len(routerInstances) + 1
       IN  /\ routerInstances' = Append(routerInstances, NewRouterInstance(name, options))
           /\ routerRegistry' = RegistrySet(routerRegistry, name, next)
           /\ registryLog' = Append(registryLog, LogEntry("setup", "router", name, next, TRUE))
    /\ UNCHANGED <<eventBusRegistry, busInstances, instanceCalls, nonRegistryVars>>

GetRouter(name) ==
    /\ Len(registryLog) < MaxRegistryOps
    /\ LET next == Len(routerInstances) + 1
           got == GetOrCreate(routerRegistry, name, next)
       IN  /\ routerInstances' = IF got.constructed
                                 THEN Append(routerInstances, NewRouterInstance(name, NoOptions))
                                 ELSE routerInstances
           /\ routerRegistry' = got.registry
           /\ registryLog' = Append(registryLog,
                 LogEntry("get", "router", name, got.instance, got.constructed))
    /\ UNCHANGED <<eventBusRegistry, busInstances, instanceCalls, nonRegistryVars>>

RegistrySteps ==
    \/ \E n \in Names, o \in SetupBusOptions : SetupEventBus(n, o)
    \/ \E n \in Names : GetEventBus(n)
    \/ \E n \in Names, o \in SetupRouterOptions : SetupRouter(n, o)
    \/ \E n \in Names : GetRouter(n)

\* The registries alone: every order of setups and gets of both kinds on
\* two names. The calls are synchronous, so the calls of concurrently running
\* tasks take effect one whole call after the other, in any order.
InitRegistry ==
    /\ NoBus
    /\ router = [logInput |-> "none", logOutput |-> "none"]
    /\ handlers = NoHandlers
    /\ lastRegister = NoHandlers
    /\ routes = <<>>
    /\ legacy = [handlerMap |-> [t \in {} |-> 0], inputLogFunc |-> "none"]
    /\ legacyCalls = <<>>
    /\ created = NotCreated
    /\ NoRegistry

NextRegistry == RegistrySteps

SpecRegistry == InitRegistry /\ [][NextRegistry]_vars

\* =================================================================
\* Operations on several instances (new NimbusEventBus(...),
\* new MessageRouter(...))
\* =================================================================
InstanceTypes == { "a" }
InstanceRegistrations == { g \in Registrations : g.type = "cmd" /\ g.handler = "h1" }
InstanceInputs == { x \in RouteInputs : x.type = "cmd" /\ x.data = "number" }

BusIds == 1 .. Len(busInstances)
RouterIds == 1 .. Len(routerInstances)

\* The listeners of every emitter there is, bus after bus.
RECURSIVE AllListeners(_)
AllListeners(n) ==
    IF n = 0 THEN <<>>
    ELSE AllListeners(n - 1) \o
         [k \in 1 .. Len(busInstances[n].listeners) |->
             [bus |-> n, sub |-> k, type |-> busInstances[n].listeners[k].type]]

\* One emitter shared by all the buses.
EventEmitterShared(b) == AllListeners(Len(busInstances))

\* this._eventEmitter of bus b: the emitter its constructor created, with
\* the listeners subscribeEvent added to it.
EventEmitter(b) ==
    [k \in 1 .. Len(busInstances[b].listeners) |->
        [bus |-> b, sub |-> k, type |-> busInstances[b].listeners[k].type]]

\* this._eventEmitter.emit(type, event) on bus b: the handlers it invokes,
\* and what it throws.
EmitOn(b, type) ==
    LET ls == SelectSeq(EventEmitter(b), LAMBDA l : l.type = type)
    IN  [ invoked |-> ls,
          threw |-> IF type = "error" /\ Len(ls) = 0
                    THEN UnhandledError ELSE NoError ]

PutsOn == { i \in 1 .. Len(instanceCalls) : instanceCalls[i].op = "putEvent" }
RoutesOn == { i \in 1 .. Len(instanceCalls) : instanceCalls[i].op = "route" }

RECURSIVE SumListeners(_)
SumListeners(n) ==
    IF n = 0 THEN 0 ELSE SumListeners(n - 1) + Len(busInstances[n].listeners)

\* busInstances[b].subscribeEvent({ type, handler })
SubscribeOn(b, type) ==
    /\ b \in BusIds
    /\ SumListeners(Len(busInstances)) < MaxSubs
    /\ busInstances' = [busInstances EXCEPT ![b].listeners =
                           Append(@, [type |-> type])]
    /\ UNCHANGED <<eventBusRegistry, routerRegistry, routerInstances, registryLog,
                   instanceCalls, nonRegistryVars>>

\* busInstances[b].putEvent(event), up to the return of emit.
PutEventOn(b, type, text) ==
    /\ b \in BusIds
    /\ Len(instanceCalls) < MaxInstanceCalls
    /\ LET config == busInstances[b].config
           call == [op |-> "putEvent", instance |-> b, type |-> type,
                    listeners |-> [i \in BusIds |-> Len(busInstances[i].listeners)]]
           sizeError == ValidateEventSize(text)
           e == EmitOn(b, type)
       IN  instanceCalls' = Append(instanceCalls,
              IF sizeError # NoError
              THEN call @@ [invoked |-> <<>>, result |-> "threw", error |-> sizeError]
              ELSE IF config.logPublish = "throws"
              THEN call @@ [invoked |-> <<>>, result |-> "threw",
                            error |-> LogPublishError]
              ELSE call @@ [invoked |-> e.invoked] @@ PublishOutcome(e))
    /\ UNCHANGED <<eventBusRegistry, routerRegistry, busInstances, routerInstances,
                   registryLog, nonRegistryVars>>

\* routerInstances[r].register(messageType, handler, schema)
RegisterOn(r, messageType, handler, schema) ==
    /\ r \in RouterIds
    /\ routerInstances' = [routerInstances EXCEPT ![r].handlers =
          HandlersSet(@, messageType,
                      [handler |-> handler, schema |-> schema, owner |-> r])]
    /\ UNCHANGED <<eventBusRegistry, routerRegistry, busInstances, registryLog,
                   instanceCalls, nonRegistryVars>>

\* routerInstances[r].route(input), up to its first suspension.
RouteOn(r, input, kind) ==
    /\ r \in RouterIds
    /\ Len(instanceCalls) < MaxInstanceCalls
    /\ instanceCalls' = Append(instanceCalls,
          [op |-> "route", instance |-> r, routers |-> Len(routerInstances),
           registeredOn |-> { q \in RouterIds :
                                input.type \in DOMAIN routerInstances[q].handlers },
           route |-> RouteUntilHandlerOn(routerInstances[r].config,
                                         routerInstances[r].handlers, input, kind)])
    /\ UNCHANGED <<eventBusRegistry, routerRegistry, busInstances, routerInstances,
                   registryLog, nonRegistryVars>>

\* The promise returned by the handler of a route on an instance settles.
RouteOnSettles(i, outcome) ==
    /\ i \in RoutesOn
    /\ instanceCalls[i].route.pc = "awaitHandler"
    /\ instanceCalls' = [instanceCalls EXCEPT ![i].route =
          RouteAfterHandlerOn(routerInstances[instanceCalls[i].instance].config,
                              @, outcome)]
    /\ UNCHANGED <<eventBusRegistry, routerRegistry, busInstances, routerInstances,
                   registryLog, nonRegistryVars>>

\* Two buses and two routers constructed directly, the buses with the same
\* name or with different names.
InitInstances ==
    /\ NoBus
    /\ router = [logInput |-> "none", logOutput |-> "none"]
    /\ handlers = NoHandlers
    /\ lastRegister = NoHandlers
    /\ routes = <<>>
    /\ legacy = [handlerMap |-> [t \in {} |-> 0], inputLogFunc |-> "none"]
    /\ legacyCalls = <<>>
    /\ created = NotCreated
    /\ eventBusRegistry = [n \in {} |-> 0]
    /\ routerRegistry = [n \in {} |-> 0]
    /\ registryLog = <<>>
    /\ instanceCalls = <<>>
    /\ busInstances \in { <<NewBusInstance(n, NoOptions), NewBusInstance("orders", NoOptions)>> :
                            n \in Names }
    /\ routerInstances = <<NewRouterInstance("default", NoOptions),
                           NewRouterInstance("orders", NoOptions)>>

NextInstances ==
    \/ \E b \in BusIds, t \in InstanceTypes : SubscribeOn(b, t)
    \/ \E b \in BusIds, t \in InstanceTypes : PutEventOn(b, t, LimitText)
    \/ \E r \in RouterIds, g \in InstanceRegistrations :
          RegisterOn(r, g.type, g.handler, g.schema)
    \/ \E r \in RouterIds, x \in InstanceInputs, k \in {"pending", "throw"} : RouteOn(r, x, k)
    \/ \E i \in RoutesOn, oc \in {"ok", "fail"} : RouteOnSettles(i, oc)

SpecInstances == InitInstances /\ [][NextInstances]_vars

\* The instances getEventBus and getRouter have returned to a caller.
HeldBuses ==
    { registryLog[k].instance : k \in { j \in 1 .. Len(registryLog) :
          registryLog[j].op = "get" /\ registryLog[j].kind = "bus" } }
HeldRouters ==
    { registryLog[k].instance : k \in { j \in 1 .. Len(registryLog) :
          registryLog[j].op = "get" /\ registryLog[j].kind = "router" } }

\* Setups and gets of one name, and the use of the instances the gets have
\* returned: wiring, publishing and routing. The two registries are separate
\* maps: a behaviour works with the buses or with the routers.
NextSetup ==
    \/ \E o \in SetupBusOptions : routerInstances = <<>> /\ SetupEventBus("default", o)
    \/ routerInstances = <<>> /\ GetEventBus("default")
    \/ \E b \in HeldBuses, t \in InstanceTypes : SubscribeOn(b, t)
    \/ \E b \in HeldBuses, t \in InstanceTypes : PutEventOn(b, t, LimitText)
    \/ \E o \in SetupRouterOptions : busInstances = <<>> /\ SetupRouter("default", o)
    \/ busInstances = <<>> /\ GetRouter("default")
    \/ \E r \in HeldRouters, g \in InstanceRegistrations :
          RegisterOn(r, g.type, g.handler, g.schema)
    \/ \E r \in HeldRouters, x \in InstanceInputs : RouteOn(r, x, "pending")
    \/ \E i \in RoutesOn : RouteOnSettles(i, "ok")

SpecSetup == InitRegistry /\ [][NextSetup]_vars

\* =================================================================
\* Message factories (createCommand, createQuery, createEvent)
\* =================================================================
\* v || d
OrElse(v, d) == IF Falsy(v) THEN d ELSE v

\* v ?? d
Coalesce(v, d) == IF v = Undefined THEN d ELSE v

\* ...(v && { f: v })
SpreadIfTruthy(f, v) == IF Falsy(v) THEN [k \in {} |-> 0] ELSE (f :> v)

\* The values ulid() and new Date().toISOString() produce.
GeneratedId == "ulid-1"
GeneratedCorrelationId == "ulid-2"
GeneratedTime == "now"

\* The attributes the three factories build alike.
CreateCommon(x) ==
    [ specversion |-> "1.0",
      id |-> Coalesce(x.id, GeneratedId),
      correlationid |-> Coalesce(x.correlationid, GeneratedCorrelationId),
      time |-> Coalesce(x.time, GeneratedTime),
      source |-> x.source,
      type |-> x.type,
      data |-> x.data,
      datacontenttype |-> Coalesce(x.datacontenttype, "application/json") ]
    @@ SpreadIfTruthy("dataschema", x.dataschema)

CreateCommand(x) == CreateCommon(x) @@ SpreadIfTruthy("subject", x.subject)

CreateQuery(x) == CreateCommon(x)

CreateEvent(x) == CreateCommon(x) @@ ("subject" :> x.subject)

\* One call of a factory on the input.
Create(factory) ==
    /\ created.factory = "none"
    /\ created' = [created EXCEPT
          !.factory = factory,
          !.output = IF factory = "createCommand" THEN CreateCommand(created.input)
                     ELSE IF factory = "createQuery" THEN CreateQuery(created.input)
                     ELSE CreateEvent(created.input)]
    /\ UNCHANGED nonFactoryVars

InitFactory ==
    /\ NoBus
    /\ router = [logInput |-> "none", logOutput |-> "none"]
    /\ handlers = NoHandlers
    /\ lastRegister = NoHandlers
    /\ routes = <<>>
    /\ legacy = [handlerMap |-> [t \in {} |-> 0], inputLogFunc |-> "none"]
    /\ legacyCalls = <<>>
    /\ NoRegistry
    /\ created \in { [NotCreated EXCEPT !.input = x] : x \in FactoryInputs }

NextFactory == \E f \in Factories : Create(f)

SpecFactory == InitFactory /\ [][NextFactory]_vars

\* ===================================================================
\* Properties
\* ===================================================================
Deliveries == 1 .. Len(deliveries)

Publishes == 1 .. Len(pubs)

SubOf(d) == subs[d.sub]

\* The handler failed on every invocation made so far.
AllFailed(d) ==
    /\ Len(d.results) >= 1
    /\ \A k \in 1 .. Len(d.results) : d.results[k] = "fail"

\* The retry loop is over and no invocation succeeded.
Exhausted(d) == AllFailed(d) /\ d.pc \in {"rejected", "done"}

DeliveriesOf(s, e) ==
    { i \in Deliveries : deliveries[i].sub = s /\ deliveries[i].ev = e }

\* The subscriptions emit called for publish e.
ListenersAt(e) ==
    { s \in 1 .. pubs[e].nsubs : subs[s].type = pubs[e].type }

\* putEvent got as far as emit for publish e.
Dispatched(e) == pubs[e].error \notin {SizeError, LogPublishError}

\* C1. Retry exhaustion: a delivery whose handler fails on every invocation
\* ends after exactly maxRetries + 1 invocations (also for maxRetries = 0),
\* and onError is called once, and only once every one of them has failed.
RetryExhaustion ==
    \A i \in Deliveries :
        LET d == deliveries[i]
            r == SubOf(d).maxRetries
        IN  /\ Len(d.calls) <= r + 1
            /\ Exhausted(d) => Len(d.calls) = r + 1 /\ Len(d.results) = r + 1
            /\ (Exhausted(d) /\ d.pc = "done" /\ SubOf(d).onError # "none")
                  => Len(d.onErrorCalls) = 1
            /\ Len(d.onErrorCalls) <= 1
            /\ Len(d.onErrorCalls) = 1
                  => Exhausted(d) /\ Len(d.calls) = r + 1 /\ d.pc = "done"

RetryExhaustionWitness ==
    \E i, j \in Deliveries :
        /\ SubOf(deliveries[i]).maxRetries = 0
        /\ Len(deliveries[i].calls) = 1
        /\ Len(deliveries[i].onErrorCalls) = 1
        /\ SubOf(deliveries[j]).maxRetries = 2
        /\ Len(deliveries[j].calls) = 3
        /\ Len(deliveries[j].onErrorCalls) = 1

\* C2. Retry success: when the handler succeeds on its k-th invocation after
\* k - 1 failures, k <= maxRetries + 1, the delivery is over after exactly k
\* invocations, onError is never called and no failure is logged.
RetrySuccess ==
    \A i \in Deliveries :
        LET d == deliveries[i]
        IN  \A k \in 1 .. Len(d.results) :
                d.results[k] = "ok"
                  => /\ k = Len(d.results)
                     /\ Len(d.calls) = k
                     /\ k <= SubOf(d).maxRetries + 1
                     /\ d.pc = "done"
                     /\ d.onErrorCalls = <<>>
                     /\ d.errorLogs = 0
                     /\ d.sinkError = NoError

RetrySuccessWitness ==
    \E i \in Deliveries :
        /\ deliveries[i].results = <<"fail", "fail", "ok">>
        /\ Len(deliveries[i].calls) = 3

\* C3. Fan-out: a putEvent that returns has invoked the handler of every
\* subscription registered for the event's type, once when the handler
\* succeeds and always with the published event, and no handler subscribed to
\* another type.
FanOut ==
    \A e \in Publishes :
        pubs[e].result = "returned"
          => /\ \A s \in ListenersAt(e) :
                   /\ Cardinality(DeliveriesOf(s, e)) = 1
                   /\ \A i \in DeliveriesOf(s, e) :
                          LET d == deliveries[i]
                          IN  /\ Len(d.calls) >= 1
                              /\ \A c \in 1 .. Len(d.calls) : d.calls[c] = e
                              /\ d.results = <<"ok">> => Len(d.calls) = 1 /\ d.pc = "done"
             /\ \A s \in 1 .. Len(subs) :
                   subs[s].type # pubs[e].type => DeliveriesOf(s, e) = {}

FanOutWitness ==
    \E e \in Publishes :
        /\ pubs[e].result = "returned"
        /\ Cardinality(ListenersAt(e)) = 2
        /\ \A s \in ListenersAt(e) :
               \E i \in DeliveriesOf(s, e) : deliveries[i].results = <<"ok">>

\* C4. Isolation: of two subscriptions of one event, in either registration
\* order, each has its own delivery; the one whose handler succeeds is invoked
\* once and records status=success, the one whose handler always fails
\* records status=error, whatever the other does.
Isolation ==
    \A e \in Publishes :
        Dispatched(e)
          => \A a, b \in ListenersAt(e) :
                a # b
                  => /\ Cardinality(DeliveriesOf(a, e)) = 1
                     /\ Cardinality(DeliveriesOf(b, e)) = 1
                     /\ \A i \in DeliveriesOf(a, e), j \in DeliveriesOf(b, e) :
                            LET da == deliveries[i]
                                db == deliveries[j]
                            IN  /\ Exhausted(da) => da.delivered = <<"error">>
                                /\ db.results = <<"ok">>
                                      => /\ Len(db.calls) = 1
                                         /\ db.delivered = <<"success">>
                                         /\ db.pc = "done"
                                /\ Len(db.calls) >= 1

IsolationWitness ==
    \E i, j \in Deliveries :
        /\ deliveries[i].ev = deliveries[j].ev
        /\ deliveries[i].sub < deliveries[j].sub
        /\ Exhausted(deliveries[i])
        /\ Len(deliveries[i].calls) >= 2
        /\ deliveries[i].delivered = <<"error">>
        /\ deliveries[j].results = <<"ok">>
        /\ deliveries[j].delivered = <<"success">>

\* C5 as stated: putEvent throws for a size violation and for nothing else.
OnlySizeViolationThrows ==
    \A e \in Publishes :
        pubs[e].result = "threw" <=> Utf8Length(pubs[e].text) > MaxSizeBytes

\* C5, amended. putEvent throws exactly when the event is over the size
\* limit, when logPublish throws, or when an 'error' event has no listener;
\* what it throws is never the failure of a subscriber's handler.
PublisherNeverSeesSubscriberFailure ==
    \A e \in Publishes :
        LET p == pubs[e]
        IN  /\ p.result \in {"returned", "threw"}
            /\ p.result = "threw"
                  <=> \/ Utf8Length(p.text) > MaxSizeBytes
                      \/ bus.logPublish = "throws"
                      \/ p.type = "error" /\ ListenersAt(e) = {}
            /\ p.error \in {NoError, SizeError, LogPublishError, UnhandledError}

PublisherNeverSeesSubscriberFailureWitness ==
    \E i \in Deliveries :
        /\ pubs[deliveries[i].ev].result = "returned"
        /\ Exhausted(deliveries[i])
        /\ deliveries[i].pc = "done"

\* C6. Size limit: an event of more than 65 536 bytes makes putEvent throw
\* the GenericException 'Event size exceeds the limit of 64KB' and nothing
\* else happens (no handler call, no logPublish, no span, no metric); an
\* event of exactly 65 536 bytes passes the size check.
SizeLimit ==
    LET accepted == { e \in Publishes : Utf8Length(pubs[e].text) <= MaxSizeBytes }
    IN  /\ \A e \in Publishes \ accepted :
               /\ pubs[e].result = "threw"
               /\ pubs[e].error = SizeError
               /\ \A i \in Deliveries : deliveries[i].ev # e
               /\ \A k \in 1 .. Len(busMetrics.logPublish) : busMetrics.logPublish[k] # e
        /\ \A e \in accepted : pubs[e].error # SizeError
        /\ busMetrics.published = Cardinality(accepted)
        /\ busMetrics.spansOpened = Cardinality(accepted)
        /\ Len(busMetrics.sizes) = Cardinality(accepted)

SizeLimitWitness ==
    \E e, f \in Publishes :
        /\ Utf8Length(pubs[e].text) > MaxSizeBytes
        /\ pubs[e].result = "threw"
        /\ ListenersAt(e) # {}
        /\ bus.logPublish = "returns"
        /\ Utf8Length(pubs[f].text) = MaxSizeBytes
        /\ pubs[f].result = "returned"

\* C7. putEvent does not wait: it has returned whatever stage the deliveries
\* it started are in (handler promise pending, retry sleep, finished).
PutEventDoesNotWait ==
    /\ \A e \in Publishes : pubs[e].result \in {"returned", "threw"}
    /\ \A i \in Deliveries : pubs[deliveries[i].ev].result = "returned"

PutEventDoesNotWaitWitness ==
    \E i, j \in Deliveries :
        /\ pubs[deliveries[i].ev].result = "returned"
        /\ deliveries[i].pc = "awaitHandler"
        /\ pubs[deliveries[j].ev].result = "returned"
        /\ deliveries[j].results = <<"fail", "ok">>

\* C8. Backoff: the sleep after the n-th failed attempt, n = 1 .. maxRetries,
\* is min(baseDelay * 2^(n-1), maxDelay) ms without jitter, and with jitter at
\* least that and less than 1.1 times that.
BackoffFormula ==
    \A i \in Deliveries :
        LET d == deliveries[i]
            s == SubOf(d)
            n == d.sleep.n
            base == Min2(s.baseDelay * Pow2(n - 1), s.maxDelay)
        IN  d.pc = "sleeping"
              => /\ n = Len(d.results)
                 /\ AllFailed(d)
                 /\ n \in 1 .. s.maxRetries
                 /\ IF s.useJitter
                    THEN /\ d.sleep.ms >= base * DelayUnit
                         /\ 10 * d.sleep.ms < 11 * base * DelayUnit
                    ELSE d.sleep.ms = base * DelayUnit

BackoffFormulaWitness ==
    \E i, j \in Deliveries :
        /\ deliveries[i].pc = "sleeping"
        /\ deliveries[i].sleep.n = 1
        /\ SubOf(deliveries[i]).useJitter
        /\ deliveries[i].sleep.ms > SubOf(deliveries[i]).baseDelay * DelayUnit
        /\ deliveries[j].pc = "sleeping"
        /\ deliveries[j].sleep.n = 2

\* C9 as stated: no sleep between two attempts is longer than maxDelay.
DelayAtMostMaxDelay ==
    \A i \in Deliveries :
        deliveries[i].pc = "sleeping"
          => deliveries[i].sleep.ms <= SubOf(deliveries[i]).maxDelay * DelayUnit

\* C9, amended. Without jitter a sleep is at most maxDelay; with jitter it
\* is less than 1.1 times maxDelay.
DelayBound ==
    \A i \in Deliveries :
        LET d == deliveries[i]
            s == SubOf(d)
        IN  d.pc = "sleeping"
              => IF s.useJitter
                 THEN 10 * d.sleep.ms < 11 * s.maxDelay * DelayUnit
                 ELSE d.sleep.ms <= s.maxDelay * DelayUnit

DelayBoundWitness ==
    \E i \in Deliveries :
        /\ deliveries[i].pc = "sleeping"
        /\ SubOf(deliveries[i]).useJitter
        /\ deliveries[i].sleep.ms > SubOf(deliveries[i]).maxDelay * DelayUnit


\* -----------------------------------------------------------------
\* Router properties
\* -----------------------------------------------------------------
Routes == 1 .. Len(routes)

\* route call i was made with an input whose type had a registered handler
\* whose schema accepts the input.
Accepted(i) ==
    /\ routes[i].registered # NoRegistration
    /\ SafeParse(routes[i].registered.schema, routes[i].input).success

\* The one handler invocation the claim expects of route call i.
ExpectedCall(i) ==
    [ handler |-> routes[i].registered.handler,
      arg |-> SafeParse(routes[i].registered.schema, routes[i].input).data ]

Settled(i) == routes[i].pc \in {"resolved", "rejected"}

LegacyCalls == 1 .. Len(legacyCalls)

\* C11. Unknown-type routing, for inputs with a non-empty type and routers
\* whose log callbacks return: when the type of the input is not a key of the
\* registry, MessageRouter.route and the router made by createRouter fail
\* with a NotFoundException and invoke no handler.
UnknownTypeNotFound ==
    /\ \A i \in Routes :
          ( /\ router.logInput # "throws"
            /\ ~Falsy(routes[i].input.type)
            /\ routes[i].registered = NoRegistration )
              => /\ routes[i].pc = "rejected"
                 /\ routes[i].error.class = "NotFoundException"
                 /\ routes[i].calls = <<>>
    /\ \A i \in LegacyCalls :
          ( /\ legacy.inputLogFunc # "throws"
            /\ legacyCalls[i].input.type \notin DOMAIN legacy.handlerMap )
              => /\ legacyCalls[i].pc = "threw"
                 /\ legacyCalls[i].error.class = "NotFoundException"
                 /\ legacyCalls[i].calls = <<>>


\* C12 as stated: an input without a type attribute makes route fail with the
\* InvalidInputException 'The provided input has no type attribute', whatever
\* handlers are registered, and no handler is invoked.
MissingTypeInvalidInput ==
    \A i \in Routes :
        routes[i].input.type = Undefined
          => /\ routes[i].pc = "rejected"
             /\ routes[i].error = NoTypeError
             /\ routes[i].calls = <<>>

\* C12, amended: an input without a type attribute makes route fail without
\* invoking a handler, whatever handlers are registered: with the error of
\* logInput when that callback throws, and otherwise with the
\* InvalidInputException 'The provided input has no type attribute'.
MissingType ==
    \A i \in Routes :
        routes[i].input.type = Undefined
          => /\ routes[i].pc = "rejected"
             /\ routes[i].calls = <<>>
             /\ routes[i].error =
                   IF router.logInput = "throws" THEN LogInputError ELSE NoTypeError

MissingTypeWitness ==
    \E i \in Routes :
        /\ routes[i].input.type = Undefined
        /\ routes[i].error = NoTypeError
        /\ routes[i].error.class = "InvalidInputException"
        /\ routes[i].error.message = "The provided input has no type attribute"
        /\ DOMAIN handlers = {"", "cmd", "qry"}


\* route call i was made with an input whose type had a registered handler
\* whose schema rejects the input.
Refused(i) ==
    /\ routes[i].registered # NoRegistration
    /\ ~SafeParse(routes[i].registered.schema, routes[i].input).success

IssuesOf(i) == SafeParse(routes[i].registered.schema, routes[i].input).issues

HandlerFailed(i) ==
    /\ Settled(i)
    /\ routes[i].calls # <<>>
    /\ routes[i].returned = NoValue

\* C14. Handler errors propagate unchanged: when the handler route selected
\* throws or rejects with an error, route rejects with that very error (same
\* kind, message and details), and the handler is not invoked again.
HandlerErrorsPropagate ==
    \A i \in Routes :
        /\ Len(routes[i].calls) <= 1
        /\ HandlerFailed(i)
             => /\ routes[i].pc = "rejected"
                /\ routes[i].error = HandlerFailure
                /\ routes[i].error.class = "NotFoundException"
                /\ routes[i].error.message = "Not found"
                /\ routes[i].result = NoValue

\* Two route calls whose handlers failed.
HandlerErrorsPropagateWitness ==
    \E i, j \in Routes :
        /\ i < j
        /\ HandlerFailed(i)
        /\ HandlerFailed(j)
        /\ routes[i].error = HandlerFailure
        /\ routes[j].error = HandlerFailure

\* -----------------------------------------------------------------
\* Registries and instances
\* -----------------------------------------------------------------
RegistryOps == 1 .. Len(registryLog)

\* Entries i and j are calls on the same registry for the same name.
SameName(i, j) ==
    /\ registryLog[i].kind = registryLog[j].kind
    /\ registryLog[i].name = registryLog[j].name

\* No setup for the name of entry i lies strictly between entries i and j.
NoSetupBetween(i, j) ==
    \A k \in RegistryOps :
        (i < k /\ k < j /\ SameName(i, k)) => registryLog[k].op # "setup"

\* The entries before j with the instance entry j has (of the same kind).
EarlierWithInstance(j) ==
    { i \in RegistryOps : i < j /\ registryLog[i].kind = registryLog[j].kind
                                /\ registryLog[i].instance = registryLog[j].instance }

\* C15. Registry singleton: two gets of one name on one registry with no
\* setup of that name between them return the same instance, however it was
\* created; a setup registers a new instance in place of the old one, and
\* the next get returns the instance of the most recent setup.
RegistrySingleton ==
    \A i, j \in RegistryOps :
        (i < j /\ SameName(i, j) /\ NoSetupBetween(i, j) /\ registryLog[j].op = "get")
           => /\ registryLog[j].instance = registryLog[i].instance
              /\ ~registryLog[j].constructed
              /\ registryLog[i].op = "setup" => EarlierWithInstance(i) = {}

RegistrySingletonWitness ==
    /\ Len(registryLog) = 4
    /\ \A i \in 2 .. 4 : SameName(1, i)
    /\ registryLog[1].op = "get" /\ registryLog[1].constructed
    /\ registryLog[2].op = "get" /\ registryLog[2].instance = registryLog[1].instance
    /\ registryLog[3].op = "setup"
    /\ registryLog[4].op = "get" /\ registryLog[4].instance = registryLog[3].instance
    /\ registryLog[4].instance # registryLog[1].instance

\* The gets of name n on the registry of the kind.
GetsOf(kind, n) ==
    { i \in RegistryOps : registryLog[i].kind = kind /\ registryLog[i].name = n
                          /\ registryLog[i].op = "get" }

NeverSetUp(kind, n) ==
    \A i \in RegistryOps :
        (registryLog[i].kind = kind /\ registryLog[i].name = n)
           => registryLog[i].op = "get"

InstancesNamed(kind, n) ==
    IF kind = "bus" THEN { b \in BusIds : busInstances[b].name = n }
    ELSE { r \in RouterIds : routerInstances[r].name = n }

\* C16. Single-shot construction: for a name with no registered instance,
\* in whatever order the get calls of concurrent tasks run, exactly one
\* instance is constructed for the name and every caller receives it.
SingleShotConstruction ==
    \A kind \in {"bus", "router"}, n \in Names :
        (NeverSetUp(kind, n) /\ GetsOf(kind, n) # {})
           => /\ Cardinality({ i \in GetsOf(kind, n) : registryLog[i].constructed }) = 1
              /\ Cardinality(InstancesNamed(kind, n)) = 1
              /\ \A i \in GetsOf(kind, n) : registryLog[i].instance \in InstancesNamed(kind, n)

SingleShotConstructionWitness ==
    \E kind \in {"bus", "router"}, n \in Names :
        /\ NeverSetUp(kind, n)
        /\ Cardinality(GetsOf(kind, n)) = 3
        /\ Len(registryLog) = 4

\* C17. Named instances are independent: putEvent on a bus invokes the
\* handlers subscribed on that bus, all of them and no handler subscribed
\* on another bus, also for the same event type; a route on a router reaches
\* only a handler registered on that router.
InstancesIndependent ==
    /\ \A i \in PutsOn :
          LET c == instanceCalls[i]
          IN  /\ \A k \in 1 .. Len(c.invoked) : c.invoked[k].bus = c.instance
              /\ c.result = "returned" => Len(c.invoked) = c.listeners[c.instance]
    /\ \A i \in RoutesOn :
          LET c == instanceCalls[i]
          IN  /\ Len(c.route.calls) > 0 =>
                    /\ c.instance \in c.registeredOn
                    /\ c.route.registered.owner = c.instance
              /\ c.instance \notin c.registeredOn =>
                    /\ c.route.calls = <<>>
                    /\ c.route.error.class = "NotFoundException"

InstancesIndependentWitness ==
    \E i \in PutsOn, j \in RoutesOn, b \in BusIds :
        /\ b # instanceCalls[i].instance
        /\ instanceCalls[i].listeners[b] = 1
        /\ Len(instanceCalls[i].invoked) = 1
        /\ busInstances[b].name = busInstances[instanceCalls[i].instance].name
        /\ instanceCalls[j].registeredOn # {}
        /\ instanceCalls[j].instance \notin instanceCalls[j].registeredOn
        /\ instanceCalls[j].route.error.class = "NotFoundException"

\* -----------------------------------------------------------------
\* register
\* -----------------------------------------------------------------
\* Route call i is of a message the most recent registration of its type
\* accepts.
ValidForLatest(i) ==
    /\ routes[i].latest # NoRegistration
    /\ SafeParse(routes[i].latest.schema, routes[i].input).success

\* The invocation of the most recently registered handler of the type of
\* route call i, with the message its schema produces.
LatestCall(i) ==
    [ handler |-> routes[i].latest.handler,
      arg |-> SafeParse(routes[i].latest.schema, routes[i].input).data ]

\* The registry holds, for every type, the arguments of the most recent
\* register call of that type: the last writer wins, a repeated registration
\* changes nothing, and the other types keep their registrations.
RegistryIsLatest ==
    /\ DOMAIN handlers = DOMAIN lastRegister
    /\ \A t \in DOMAIN handlers : handlers[t] = lastRegister[t]

ErrorSinkContract ==
    \A i \in Deliveries :
        LET d == deliveries[i]
        IN  /\ Exhausted(d) =>
                  /\ d.sinkError.class = "GenericException"
                  /\ d.sinkError.message =
                        "Failed to handle event: " \o pubs[d.ev].type \o " from " \o EventSource
                  /\ d.caught.stack # "none" => d.sinkError.stack = d.caught.stack
            /\ (Exhausted(d) /\ d.pc = "done") =>
                  IF SubOf(d).onError # "none"
                  THEN /\ d.onErrorCalls = << [error |-> d.sinkError, event |-> d.ev] >>
                       /\ d.errorLogs = 0
                  ELSE /\ d.onErrorCalls = <<>>
                       /\ d.errorLogs = 1
            /\ ~(Exhausted(d) /\ d.pc = "done") =>
                  d.onErrorCalls = <<>> /\ d.errorLogs = 0

\* Two exhausted deliveries, one handed to onError with the stack of the
\* handler's Error, one logged, whose handler rejected with a value that is
\* not an Error.
ErrorSinkContractWitness ==
    \E i, j \in Deliveries :
        /\ Exhausted(deliveries[i]) /\ deliveries[i].pc = "done"
        /\ SubOf(deliveries[i]).onError # "none"
        /\ Len(deliveries[i].onErrorCalls) = 1
        /\ deliveries[i].onErrorCalls[1].error.message =
              "Failed to handle event: a from https://nimbus.overlap.at"
        /\ deliveries[i].onErrorCalls[1].error.stack = HandlerError.stack
        /\ Exhausted(deliveries[j]) /\ deliveries[j].pc = "done"
        /\ SubOf(deliveries[j]).onError = "none"
        /\ deliveries[j].errorLogs = 1
        /\ deliveries[j].caught = HandlerRejection

\* -----------------------------------------------------------------
\* Effective retry policy
\* -----------------------------------------------------------------
\* The value the claim gives field f of the policy of a subscription made
\* with the options.
Effective(options, f) == IF f \in DOMAIN options THEN options[f] ELSE bus[f]

PolicyFields == {"maxRetries", "baseDelay", "maxDelay", "useJitter"}

\* C20. Effective retry policy: each of maxRetries, baseDelay, maxDelay and
\* useJitter of a subscription is the value its options give, 0 and false
\* included, and the value of the bus otherwise, which is 2, 1000, 30000 and
\* true on a bus constructed without options; the deliveries of the
\* subscription invoke the handler at most maxRetries + 1 times, exactly so
\* many when it always fails, and sleep as the policy says.
EffectiveRetryPolicy ==
    /\ LET b == NimbusEventBus(NoOptions, "none")
       IN  /\ b.maxRetries = 2 /\ b.baseDelay = 1000 /\ b.maxDelay = 30000
           /\ b.useJitter = TRUE
    /\ \A s \in 1 .. Len(subs), f \in PolicyFields :
          subs[s][f] = Effective(subs[s].options, f)
    /\ \A i \in Deliveries :
          LET d == deliveries[i]
              o == SubOf(d).options
          IN  /\ Len(d.calls) <= Effective(o, "maxRetries") + 1
              /\ Exhausted(d) => Len(d.calls) = Effective(o, "maxRetries") + 1
              /\ d.pc = "sleeping" =>
                    \E r \in RandomDraws :
                        d.sleep.ms =
                           (Min2(Effective(o, "baseDelay") * Pow2(d.sleep.n - 1),
                                 Effective(o, "maxDelay")))
                           * (DelayUnit + IF Effective(o, "useJitter") THEN r ELSE 0)

\* On a bus with maxRetries 2 and jitter, a subscription with
\* options.maxRetries = 0 whose handler failed was invoked once, and one with
\* options.useJitter = false sleeps the base delay of the bus.
EffectiveRetryPolicyWitness ==
    \E i, j \in Deliveries :
        /\ bus.maxRetries = 2 /\ bus.useJitter
        /\ SubOf(deliveries[i]).options = [maxRetries |-> 0, baseDelay |-> 0, maxDelay |-> 0]
        /\ Exhausted(deliveries[i]) /\ deliveries[i].pc = "done"
        /\ Len(deliveries[i].calls) = 1
        /\ SubOf(deliveries[j]).options = [maxRetries |-> 1, useJitter |-> FALSE]
        /\ deliveries[j].pc = "sleeping"
        /\ deliveries[j].sleep.ms = 1000 * DelayUnit

\* -----------------------------------------------------------------
\* Validation and undeclared fields
\* -----------------------------------------------------------------
\* The declared attributes of a message: those the schemas declare.
Declared(m) == [type |-> m.type, data |-> m.data]

\* C21 as stated: the message route passes to the handler has every field of
\* the accepted input with its value, the fields the schema does not declare
\* included.
UnknownFieldsPreserved ==
    \A i \in Routes :
        \A k \in 1 .. Len(routes[i].calls) : routes[i].calls[k].arg = routes[i].input

\* C21, amended: the message route passes to the handler is the output of
\* the schema: it has every field of the accepted input that the schema
\* declares, with its value, and none of the fields the schema does not
\* declare.
DeclaredFieldsOnly ==
    \A i \in Routes :
        \A k \in 1 .. Len(routes[i].calls) :
            /\ Declared(routes[i].calls[k].arg) = Declared(routes[i].input)
            /\ routes[i].calls[k].arg.extra = "absent"

\* A handler was called for an input that has an undeclared field.
DeclaredFieldsOnlyWitness ==
    \E i \in Routes :
        /\ Len(routes[i].calls) = 1
        /\ routes[i].input.extra = "present"
        /\ routes[i].input.data = "number"
        /\ routes[i].calls[1].arg.data = "number"
        /\ routes[i].calls[1].arg.type = routes[i].input.type
        /\ routes[i].calls[1].arg.extra = "absent"

\* -----------------------------------------------------------------
\* Message factories
\* -----------------------------------------------------------------
DefaultedFields == {"id", "correlationid", "time", "datacontenttype"}

\* C22. Factory defaults: the message a factory creates has specversion
\* '1.0' and all of id, correlationid, time and datacontenttype populated;
\* each of them that the input provides, and source, type and data, is copied
\* unchanged; dataschema is in the output only when the input provides it.
FactoryDefaults ==
    created.factory # "none" =>
        LET x == created.input
            m == created.output
        IN  /\ m.specversion = "1.0"
            /\ \A f \in DefaultedFields :
                  /\ f \in DOMAIN m
                  /\ m[f] # Undefined
                  /\ x[f] # Undefined => m[f] = x[f]
            /\ x.id = Undefined => m.id # ""
            /\ x.correlationid = Undefined => m.correlationid # ""
            /\ x.time = Undefined => m.time # ""
            /\ x.datacontenttype = Undefined => m.datacontenttype = "application/json"
            /\ m.source = x.source /\ m.type = x.type /\ m.data = x.data
            /\ "dataschema" \in DOMAIN m =>
                  x.dataschema # Undefined /\ m.dataschema = x.dataschema

\* A factory filled in an id and a time, kept the empty correlationid and the
\* datacontenttype of the input, and left out the dataschema it was not given.
FactoryDefaultsWitness ==
    /\ created.factory = "createEvent"
    /\ created.input.id = Undefined /\ created.output.id = GeneratedId
    /\ created.input.time = Undefined /\ created.output.time = GeneratedTime
    /\ created.input.correlationid = "" /\ created.output.correlationid = ""
    /\ created.input.datacontenttype = "text/plain"
    /\ created.output.datacontenttype = "text/plain"
    /\ created.input.dataschema = Undefined
    /\ "dataschema" \notin DOMAIN created.output

\* -----------------------------------------------------------------
\* Router telemetry
\* -----------------------------------------------------------------
\* C23. Router outcome metric: a route call increments
\* router_messages_routed_total exactly once, when it ends: with status
\* success if and only if it resolves, with the handler's result, and with
\* status error if and only if it rejects; never twice, never with both
\* statuses.
RouterOutcomeMetric ==
    \A i \in Routes :
        /\ Len(routes[i].routed) <= 1
        /\ Settled(i) <=> Len(routes[i].routed) = 1
        /\ routes[i].pc = "resolved" <=> routes[i].routed = << "success" >>
        /\ routes[i].pc = "rejected" <=> routes[i].routed = << "error" >>
        /\ routes[i].pc = "resolved" =>
              /\ Len(routes[i].calls) = 1
              /\ routes[i].result =
                    HandlerValue(routes[i].calls[1].handler, routes[i].calls[1].arg)

\* One call resolved with its handler's result and one rejected for an
\* unknown type.
RouterOutcomeMetricWitness ==
    \E i, j \in Routes :
        /\ routes[i].pc = "resolved" /\ routes[i].routed = << "success" >>
        /\ routes[j].pc = "rejected" /\ routes[j].routed = << "error" >>
        /\ routes[j].error.class = "NotFoundException"
        /\ routes[j].calls = <<>>

\* C24. The span of a route call is ended exactly once on every exit path:
\* not while the call is waiting for its handler, and once when the call has
\* resolved or rejected, whatever made it reject.
RouteSpanEndedOnce ==
    \A i \in Routes :
        /\ routes[i].spanEnds <= 1
        /\ Settled(i) <=> routes[i].spanEnds = 1

\* A call that failed for its missing type and a call whose handler failed,
\* each with its span ended.
RouteSpanEndedOnceWitness ==
    \E i, j \in Routes :
        /\ routes[i].error = NoTypeError /\ routes[i].spanEnds = 1
        /\ routes[j].error = HandlerFailure /\ Len(routes[j].calls) = 1
        /\ routes[j].spanEnds = 1

\* -----------------------------------------------------------------
\* Delivery telemetry
\* -----------------------------------------------------------------
\* The delivery is over: its handler succeeded or its retries are exhausted.
Ended(d) == d.pc \in {"rejected", "done"}

\* The number of failed attempts of the delivery.
Failures(d) == Cardinality({ k \in 1 .. Len(d.results) : d.results[k] = "fail" })

Succeeded(d) == \E k \in 1 .. Len(d.results) : d.results[k] = "ok"

\* C25. A delivery emits eventbus_events_delivered_total once and ends its
\* span once, when it ends and not before: with status success if an attempt
\* succeeded, also after failed attempts, and with status error if all
\* maxRetries + 1 attempts failed; a failed attempt that is followed by a
\* retry emits nothing.
DeliveredOnce ==
    \A i \in Deliveries :
        LET d == deliveries[i]
        IN  /\ Len(d.delivered) <= 1 /\ d.spanEnds <= 1
            /\ Ended(d) <=> Len(d.delivered) = 1
            /\ Ended(d) <=> d.spanEnds = 1
            /\ d.delivered = << "success" >> <=> Succeeded(d)
            /\ d.delivered = << "error" >> <=>
                  (AllFailed(d) /\ Len(d.results) = SubOf(d).maxRetries + 1)

\* A delivery that succeeded on its second attempt, and one with a retry
\* that failed on all attempts.
DeliveredOnceWitness ==
    \E i, j \in Deliveries :
        /\ deliveries[i].results = << "fail", "ok" >>
        /\ deliveries[i].delivered = << "success" >>
        /\ deliveries[i].spanEnds = 1
        /\ AllFailed(deliveries[j]) /\ Len(deliveries[j].results) >= 2
        /\ deliveries[j].delivered = << "error" >>
        /\ deliveries[j].spanEnds = 1

\* C26. Retry accounting: the retry counter of a delivery is incremented,
\* and a 'retry' span event with the 1-based number of the failed attempt
\* added, once for each failed attempt that is followed by a sleep and
\* another attempt and not for the final failed attempt: a delivery whose
\* first f attempts failed has min(f, maxRetries) of them, one that
\* succeeded at once none.
RetryAccounting ==
    \A i \in Deliveries :
        LET d == deliveries[i]
        IN  /\ d.retries = Min2(Failures(d), SubOf(d).maxRetries)
            /\ d.retryEvents = [k \in 1 .. d.retries |-> k]
            /\ d.retries = d.sleeps
            /\ \A k \in 1 .. Len(d.results) :
                  d.results[k] = "fail" => \A j \in 1 .. k : d.results[j] = "fail"
            /\ d.results = << "ok" >> => d.retries = 0

\* A delivery that failed on all three attempts with two retries counted,
\* and one that succeeded at once.
RetryAccountingWitness ==
    \E i, j \in Deliveries :
        /\ SubOf(deliveries[i]).maxRetries = 2
        /\ deliveries[i].results = << "fail", "fail", "fail" >>
        /\ deliveries[i].retries = 2
        /\ deliveries[i].retryEvents = << 1, 2 >>
        /\ deliveries[j].results = << "ok" >>
        /\ deliveries[j].retries = 0

\* -----------------------------------------------------------------
\* Publishing telemetry
\* -----------------------------------------------------------------
\* The publishes of events within the size limit, in publish order.
WithinLimit == SelectSeq([e \in Publishes |-> e],
                         LAMBDA e : Utf8Length(pubs[e].text) <= MaxSizeBytes)

\* Every putEvent of an event within the size limit is counted once and, if
\* logPublish is configured, passed once to logPublish, in publish order,
\* however many subscriptions its type has; with none no handler runs.
PublishedAndLogged ==
    /\ busMetrics.published = Len(WithinLimit)
    /\ busMetrics.logPublish = IF bus.logPublish = "none" THEN <<>> ELSE WithinLimit
    /\ \A e \in Publishes : ListenersAt(e) = {} =>
          \A i \in Deliveries : deliveries[i].ev # e

\* C27 as stated: every putEvent of an event within the size limit is counted
\* once and, if logPublish is configured, passed once to logPublish, in
\* publish order, however many subscriptions its type has; with none, putEvent
\* still returns normally and no handler runs.
PublishOnceReturnsNormally ==
    /\ PublishedAndLogged
    /\ \A k \in 1 .. Len(WithinLimit) :
          ListenersAt(WithinLimit[k]) = {} => pubs[WithinLimit[k]].result = "returned"

\* C27, amended: as stated, except that with no subscription putEvent returns
\* normally unless logPublish throws or the type of the event is 'error', in
\* which cases it throws, after the counter and logPublish.
PublishOnce ==
    /\ PublishedAndLogged
    /\ \A k \in 1 .. Len(WithinLimit) :
          LET e == WithinLimit[k]
          IN  ListenersAt(e) = {} =>
                 IF bus.logPublish = "throws"
                 THEN pubs[e].result = "threw" /\ pubs[e].error = LogPublishError
                 ELSE IF pubs[e].type = "error"
                 THEN pubs[e].result = "threw" /\ pubs[e].error = UnhandledError
                 ELSE pubs[e].result = "returned"

\* Two events within the limit passed to logPublish in publish order, the
\* first with no subscription, the second with two.
PublishOnceWitness ==
    /\ Len(pubs) = 2
    /\ bus.logPublish = "returns"
    /\ busMetrics.published = 2
    /\ busMetrics.logPublish = << 1, 2 >>
    /\ ListenersAt(1) = {} /\ pubs[1].result = "returned"
    /\ Cardinality(ListenersAt(2)) = 2
    /\ Cardinality({ i \in Deliveries : deliveries[i].ev = 2 }) = 2

\* -----------------------------------------------------------------
\* Scheduling
\* -----------------------------------------------------------------
\* The deliveries started by publish e, in the order in which emit started
\* them.
StartedBy(e) == SelectSeq([i \in Deliveries |-> i],
                          LAMBDA i : deliveries[i].ev = e)

\* C28. Registration-order scheduling: for one putEvent, the handlers of the
\* subscriptions of the event's type are first invoked in the order in which
\* the subscriptions were registered, each with the event; how the deliveries
\* complete or retry after that is not ordered.
RegistrationOrder ==
    \A e \in Publishes :
        LET st == StartedBy(e)
        IN  /\ { deliveries[st[k]].sub : k \in 1 .. Len(st) } =
                  IF Dispatched(e) THEN ListenersAt(e) ELSE {}
            /\ \A k, l \in 1 .. Len(st) :
                  k < l => deliveries[st[k]].sub < deliveries[st[l]].sub
            /\ \A k \in 1 .. Len(st) :
                  /\ Len(deliveries[st[k]].calls) >= 1
                  /\ deliveries[st[k]].calls[1] = e

\* One putEvent with two subscriptions: the handler registered second has
\* completed while the delivery to the one registered first waits for its
\* retry.
RegistrationOrderWitness ==
    \E e \in Publishes :
        LET st == StartedBy(e)
        IN  /\ Len(st) = 2
            /\ deliveries[st[1]].sub = 1 /\ deliveries[st[2]].sub = 2
            /\ deliveries[st[1]].pc = "sleeping"
            /\ deliveries[st[1]].results = << "fail" >>
            /\ deliveries[st[2]].pc = "done"
            /\ deliveries[st[2]].results = << "ok" >>

\* The delivery of an earlier event to subscription s is unfinished.
Unfinished(s) ==
    \E i \in Deliveries : deliveries[i].sub = s /\ deliveries[i].pc # "done"

\* C29. Publish order is not preserved across retries: a putEvent invokes the
\* handler of every subscription of the type with the new event at once, also
\* when the delivery of an earlier event to that subscription is unfinished
\* (its handler pending or its retry timer running); so an event published
\* later can be handled before the retry of an earlier one.
NoWaitingForEarlierDelivery ==
    [][ (Len(pubs') = Len(pubs) + 1 /\ pubs'[Len(pubs')].error \notin {SizeError, LogPublishError})
           => \A s \in 1 .. Len(subs) :
                 (subs[s].type = pubs'[Len(pubs')].type /\ Unfinished(s))
                    => \E j \in (Len(deliveries) + 1) .. Len(deliveries') :
                          /\ deliveries'[j].sub = s
                          /\ deliveries'[j].ev = Len(pubs')
                          /\ deliveries'[j].calls = << Len(pubs') >>
                          /\ deliveries'[j].pc # "start" ]_vars

\* Events 1 and 2 were published to one subscription; the handler has
\* completed successfully for event 2 while event 1, whose first attempt
\* failed, waits for its retry.
NoWaitingForEarlierDeliveryWitness ==
    \E i, j \in Deliveries :
        /\ deliveries[i].sub = deliveries[j].sub
        /\ deliveries[i].ev = 1 /\ deliveries[j].ev = 2
        /\ deliveries[i].results = << "fail" >>
        /\ deliveries[i].pc = "sleeping"
        /\ deliveries[j].results = << "ok" >>
        /\ deliveries[j].pc = "done"

\* -----------------------------------------------------------------
\* Legacy router: handler failures
\* -----------------------------------------------------------------
\* C30. The legacy router wraps synchronous handler failures: when the
\* handler selected by the router of createRouter throws an error that is not
\* a ZodError (a NotFoundException 'Not found'), the call of the router throws
\* a GenericException with the message and the stack of that error, and the
\* handler was invoked once.
LegacyWrapsHandlerFailure ==
    \A i \in LegacyCalls :
        LET c == legacyCalls[i]
        IN  (c.thrown # LegacyNoError /\ c.thrown.class # "ZodError")
               => /\ c.pc = "threw"
                  /\ Len(c.calls) = 1
                  /\ c.thrown.class = "NotFoundException"
                  /\ c.error.class = "GenericException"
                  /\ c.error.message = "Not found"
                  /\ c.error.stack = "handler"
                  /\ c.result = NoValue

\* A registered handler was given a valid input and threw a
\* NotFoundException, and the router threw the GenericException.
LegacyWrapsHandlerFailureWitness ==
    \E i \in LegacyCalls :
        /\ legacyCalls[i].thrown = LegacyHandlerFailure
        /\ legacyCalls[i].pc = "threw"
        /\ Len(legacyCalls[i].calls) = 1
        /\ legacyCalls[i].error.class = "GenericException"
        /\ legacyCalls[i].error.message = "Not found"

\* -----------------------------------------------------------------
\* Router: order of the checks
\* -----------------------------------------------------------------
\* The schema registered for the type of the input of route call i rejects
\* the input.
OwnSchemaRejects(i) ==
    /\ routes[i].registered.schema = "numberData"
    /\ routes[i].input.data # "number"

\* What the three checks of route, in their order, make of route call i.
ChecksInOrder(i) ==
    LET r == routes[i]
    IN  IF r.input.type = Undefined
        THEN r.error = NoTypeError /\ r.calls = <<>>
        ELSE IF r.registered = NoRegistration
        THEN /\ r.error.class = "NotFoundException"
             /\ r.error.message = "Message handler not found"
             /\ r.calls = <<>>
        ELSE IF OwnSchemaRejects(i)
        THEN /\ r.error.class = "InvalidInputException"
             /\ r.error.message = "The provided input is invalid"
             /\ r.calls = <<>>
        ELSE /\ Len(r.calls) = 1
             /\ r.calls[1].handler = r.registered.handler

\* C31 as stated: route checks the type before the registry and the registry
\* before the schema: an input with no type always fails with the
\* InvalidInputException 'no type attribute', an input of an unregistered type
\* always fails with the NotFoundException, also when no schema accepts it, and
\* only the schema registered for the type of the input decides on it.
ChecksOrdered ==
    \A i \in Routes : routes[i].input.type # "" => ChecksInOrder(i)

\* C31, amended: when logInput does not throw, route checks the type (absent
\* or empty) before the registry and the registry before the schema, as
\* stated; when logInput throws, route fails with its error before any check.
ChecksOrderedAfterLogInput ==
    \A i \in Routes :
        IF router.logInput = "throws"
        THEN routes[i].error = LogInputError /\ routes[i].calls = <<>>
        ELSE IF routes[i].input.type = ""
        THEN routes[i].error = NoTypeError /\ routes[i].calls = <<>>
        ELSE ChecksInOrder(i)

\* With cmd registered under a schema that wants a number and qry not
\* registered: an input without a type and an input of type qry, both with a
\* string, fail the type check and the lookup.
ChecksOrderedAfterLogInputWitness ==
    /\ router.logInput = "returns"
    /\ DOMAIN handlers = {"cmd"}
    /\ handlers["cmd"].schema = "numberData"
    /\ \E i, j \in Routes :
          /\ routes[i].input = [type |-> Undefined, data |-> "string", extra |-> "present"]
          /\ routes[i].error = NoTypeError
          /\ routes[j].input = [type |-> "qry", data |-> "string", extra |-> "present"]
          /\ routes[j].error.class = "NotFoundException"

\* -----------------------------------------------------------------
\* Termination of deliveries
\* -----------------------------------------------------------------
\* Delivery d ended with its success recorded and the error sink not run.
EndedInSuccess(d) ==
    /\ d.delivered = << "success" >>
    /\ d.results[Len(d.results)] = "ok"
    /\ d.onErrorCalls = <<>>
    /\ d.errorLogs = 0

\* Delivery d ended with the error sink run once: onError, or the error log
\* when the subscription has no onError.
EndedInErrorSink(d) ==
    /\ d.delivered = << "error" >>
    /\ \A k \in 1 .. Len(d.results) : d.results[k] = "fail"
    /\ IF SubOf(d).onError # "none"
       THEN Len(d.onErrorCalls) = 1 /\ d.errorLogs = 0
       ELSE d.onErrorCalls = <<>> /\ d.errorLogs = 1

\* C32. Delivery terminates: when every handler invocation terminates, every
\* delivery eventually ends, after at most maxRetries + 1 invocations of the
\* handler and at most maxRetries sleeps, either with its success recorded or
\* with the error sink run exactly once, and never both.
DeliveryTerminates ==
    /\ [](\A i \in Deliveries :
             LET d == deliveries[i]
             IN  /\ Len(d.calls) <= SubOf(d).maxRetries + 1
                 /\ d.sleeps <= SubOf(d).maxRetries
                 /\ Len(d.onErrorCalls) + d.errorLogs <= 1
                 /\ d.pc = "done" => (EndedInSuccess(d) # EndedInErrorSink(d)))
    /\ \A i \in 1 .. MaxDeliveries :
          [](i \in Deliveries => <>(i \in Deliveries /\ deliveries[i].pc = "done"))

\* One delivery has ended in the error sink after three invocations and two
\* sleeps, another in success after a retry.
DeliveryTerminatesWitness ==
    \E i, j \in Deliveries :
        /\ deliveries[i].pc = "done" /\ EndedInErrorSink(deliveries[i])
        /\ Len(deliveries[i].calls) = 3 /\ deliveries[i].sleeps = 2
        /\ deliveries[j].pc = "done" /\ EndedInSuccess(deliveries[j])
        /\ deliveries[j].sleeps = 1

\* -----------------------------------------------------------------
\* What happens inside putEvent
\* -----------------------------------------------------------------
\* The deliveries a step has added.
Added == { j \in 1 .. Len(deliveries') : j > Len(deliveries) }

\* C33. The first invocation of the handler of every subscription of the
\* event's type happens inside putEvent: in the step in which putEvent
\* returns and its span is ended, each of these handlers has been called
\* once with the event, and no result has been awaited, no retry made and no
\* error sink run; the steps after it leave the publish and its span alone.
FirstInvocationInsidePutEvent ==
    [][ IF Len(pubs') = Len(pubs) + 1
        THEN LET e == Len(pubs')
             IN  pubs'[e].result = "returned"
                    => /\ busMetrics'.spansEnded = busMetrics.spansEnded + 1
                       /\ { deliveries'[j].sub : j \in Added } =
                             { s \in 1 .. Len(subs) : subs[s].type = pubs'[e].type }
                       /\ Cardinality(Added) =
                             Cardinality({ s \in 1 .. Len(subs) : subs[s].type = pubs'[e].type })
                       /\ \A j \in Added :
                             /\ deliveries'[j].ev = e
                             /\ deliveries'[j].calls = << e >>
                             /\ deliveries'[j].pc \in {"awaitHandler", "sleeping", "rejected"}
                             /\ "ok" \notin { deliveries'[j].results[k] :
                                                 k \in 1 .. Len(deliveries'[j].results) }
                             /\ deliveries'[j].onErrorCalls = <<>>
                             /\ deliveries'[j].errorLogs = 0
        ELSE /\ pubs' = pubs
             /\ busMetrics' = busMetrics
             /\ Added = {} ]_vars

\* putEvent has returned with its span ended; both subscribed handlers have
\* been called once, one is pending and the other threw and waits for its
\* retry.
FirstInvocationInsidePutEventWitness ==
    /\ Len(pubs) = 1 /\ pubs[1].result = "returned"
    /\ busMetrics.spansEnded = 1
    /\ Len(deliveries) = 2
    /\ deliveries[1].calls = << 1 >> /\ deliveries[1].pc = "awaitHandler"
    /\ deliveries[2].calls = << 1 >> /\ deliveries[2].pc = "sleeping"

\* -----------------------------------------------------------------
\* A throwing logPublish
\* -----------------------------------------------------------------
\* C34. When logPublish throws for an event within the size limit, putEvent
\* throws that error to the publisher, the event has been counted as
\* published, the publish span is marked as failed and ended, and no handler
\* is invoked for the event.
LogPublishThrows ==
    bus.logPublish = "throws"
       => /\ \A k \in 1 .. Len(WithinLimit) :
                /\ pubs[WithinLimit[k]].result = "threw"
                /\ pubs[WithinLimit[k]].error.message = "logPublish"
          /\ busMetrics.published = Len(WithinLimit)
          /\ busMetrics.logPublish = WithinLimit
          /\ busMetrics.spansOpened = Len(WithinLimit)
          /\ busMetrics.spanErrors = Len(WithinLimit)
          /\ busMetrics.spansEnded = Len(WithinLimit)
          /\ deliveries = <<>>

\* An event within the limit was published to a subscribed type on a bus
\* whose logPublish throws.
LogPublishThrowsWitness ==
    /\ bus.logPublish = "throws"
    /\ \E e \in Publishes :
          /\ ListenersAt(e) # {}
          /\ Utf8Length(pubs[e].text) <= MaxSizeBytes
          /\ pubs[e].result = "threw"
          /\ pubs[e].error = LogPublishError
    /\ busMetrics.published >= 1
    /\ busMetrics.spansEnded = busMetrics.published

SetupDiscardsWiring ==
    /\ [][ /\ Len(routerInstances') > Len(routerInstances)
              => LET n == Len(routerInstances')
                 IN  /\ routerInstances'[n].handlers = NoHandlers
                     /\ routerRegistry'[routerInstances'[n].name] = n
                     /\ \A q \in RouterIds : routerInstances'[q] = routerInstances[q]
           /\ Len(busInstances') > Len(busInstances)
              => LET n == Len(busInstances')
                 IN  /\ busInstances'[n].listeners = <<>>
                     /\ eventBusRegistry'[busInstances'[n].name] = n
                     /\ \A q \in BusIds : busInstances'[q] = busInstances[q] ]_vars
    /\ [](\A i \in RoutesOn :
             LET c == instanceCalls[i]
             IN  IF c.instance \in c.registeredOn
                 THEN /\ Len(c.route.calls) = 1
                      /\ c.route.registered.owner = c.instance
                 ELSE /\ c.route.calls = <<>>
                      /\ c.route.error.class = "NotFoundException"
                      /\ c.route.error.message = "Message handler not found")
    /\ [](\A i \in PutsOn :
             LET c == instanceCalls[i]
             IN  /\ Len(c.invoked) = c.listeners[c.instance]
                 /\ \A k \in 1 .. Len(c.invoked) : c.invoked[k].bus = c.instance)

\* After a setup over an instance with a handler and a subscription: a route
\* through the instance now registered fails with NotFound and a putEvent on
\* it invokes nothing, and a route through the earlier instance, made after
\* the setup, reaches its handler.
SetupDiscardsWiringWitness ==
    /\ Len(routerInstances) = 2 /\ routerRegistry["default"] = 2
    /\ \E i, j \in RoutesOn :
          /\ instanceCalls[i].instance = 2
          /\ instanceCalls[i].registeredOn = {1}
          /\ instanceCalls[i].route.error.class = "NotFoundException"
          /\ instanceCalls[j].instance = 1
          /\ instanceCalls[j].routers = 2
          /\ Len(instanceCalls[j].route.calls) = 1
    /\ \E k \in 1 .. Len(registryLog) :
          /\ registryLog[k].op = "setup" /\ registryLog[k].kind = "router"
          /\ registryLog[k].instance = 2

\* -----------------------------------------------------------------
\* Routes in flight
\* -----------------------------------------------------------------
\* C37. A route in flight is not affected by a later register: a register
\* changes no route call, also none that awaits its handler; a route call that
\* awaited its handler resolves with the value of the handler that was
\* registered for the type when it looked it up, invoked once, whatever is
\* registered for the type by then; and a route call looks up the most recent
\* registration made before it.
InFlightKeepsHandler ==
    [][ /\ handlers' # handlers => routes' = routes
        /\ \A i \in Routes :
              (routes[i].pc = "awaitHandler" /\ routes'[i].pc = "resolved")
                 => /\ routes'[i].result.by = routes[i].registered.handler
                    /\ routes'[i].result.of = routes[i].calls[1].arg
                    /\ routes'[i].returned = routes'[i].result
                    /\ routes'[i].calls = routes[i].calls
                    /\ Len(routes[i].calls) = 1
        /\ Len(routes') > Len(routes)
              => LET r == routes'[Len(routes')]
                 IN  /\ r.registered = r.latest
                     /\ r.calls # <<>> => r.calls[1].handler = r.latest.handler ]_vars

\* The handler of cmd was replaced while route call 1 awaited the handler
\* it had looked up, h1; route call 2, made after the replacement, got the
\* value of the new handler, and route call 1 is still awaiting h1.
InFlightKeepsHandlerWitness ==
    /\ Len(routes) = 2
    /\ routes[1].pc = "awaitHandler" /\ routes[1].handler = "h1"
    /\ routes[1].input.type = "cmd" /\ routes[2].input.type = "cmd"
    /\ handlers["cmd"].handler = "h2"
    /\ routes[2].pc = "resolved" /\ routes[2].result.by = "h2"

\* -----------------------------------------------------------------
\* Attempt counters
\* -----------------------------------------------------------------
\* The failed invocations of delivery d.
OwnFailures(d) == { k \in 1 .. Len(d.results) : d.results[k] = "fail" }

\* C38. Attempt counters are per delivery: the attempt counter of a delivery
\* counts the failures of its own invocations and nothing else, a step of one
\* delivery changes no other delivery, and a delivery gives up only when
\* maxRetries + 1 invocations of its own have failed, whatever the other
\* deliveries to the subscription or of the event have done.
AttemptsPerDelivery ==
    /\ [](\A i \in Deliveries :
             LET d == deliveries[i]
             IN  /\ d.attempt = Cardinality(OwnFailures(d))
                 /\ d.pc \in {"rejected", "done"} /\ d.delivered = << "error" >>
                       => /\ Cardinality(OwnFailures(d)) = SubOf(d).maxRetries + 1
                          /\ Len(d.calls) = SubOf(d).maxRetries + 1
                 /\ d.pc \in {"awaitHandler", "sleeping"}
                       => Cardinality(OwnFailures(d)) <= SubOf(d).maxRetries)
    /\ [][ \A i, j \in Deliveries :
              (i # j /\ deliveries'[i] # deliveries[i]) => deliveries'[j] = deliveries[j] ]_vars

\* Two events were in flight to one subscription with two retries: the
\* delivery of the first has used up its three attempts, and the delivery of
\* the second has succeeded on its third attempt all the same.
AttemptsPerDeliveryWitness ==
    \E i, j \in Deliveries :
        /\ deliveries[i].sub = deliveries[j].sub
        /\ deliveries[i].ev = 1 /\ deliveries[j].ev = 2
        /\ SubOf(deliveries[i]).maxRetries = 2
        /\ deliveries[i].results = << "fail", "fail", "fail" >>
        /\ deliveries[j].results = << "fail", "fail", "ok" >>

\* -----------------------------------------------------------------
\* The log callbacks of the router
\* -----------------------------------------------------------------
\* The handler of route call i has returned a result.
HandlerReturned(i) == routes[i].returned # NoValue

\* C39. A configured logInput is called once for every route call, before
\* any check, also for the calls that fail; a configured logOutput is called
\* once, with the result, for the calls whose handler returned a result and
\* for no other. When logOutput throws, the route call rejects with its error
\* and records status=error and no status=success, the handler having run to
\* completion.
LogCallbacks ==
    \A i \in Routes :
        /\ routes[i].logInput = IF router.logInput = "none" THEN 0 ELSE 1
        /\ router.logInput = "throws"
              => /\ routes[i].pc = "rejected"
                 /\ routes[i].error.message = "logInput"
                 /\ routes[i].calls = <<>>
        /\ routes[i].logOutput =
              IF router.logOutput # "none" /\ HandlerReturned(i)
              THEN << routes[i].returned >> ELSE <<>>
        /\ HandlerReturned(i)
              => /\ Len(routes[i].calls) = 1
                 /\ routes[i].returned.by = routes[i].calls[1].handler
                 /\ routes[i].pc \in {"resolved", "rejected"}
        /\ (router.logOutput = "throws" /\ HandlerReturned(i))
              => /\ routes[i].pc = "rejected"
                 /\ routes[i].error.class = "Error"
                 /\ routes[i].error.message = "logOutput"
                 /\ routes[i].routed = << "error" >>
                 /\ routes[i].result = NoValue
        /\ (router.logOutput # "throws" /\ HandlerReturned(i))
              => routes[i].pc = "resolved"

\* A handler returned a result, logOutput was called with it and threw, and
\* the route call rejected; another call failed before its handler and
\* logOutput was not called for it.
LogCallbacksWitness ==
    /\ router.logOutput = "throws"
    /\ \E i, j \in Routes :
          /\ HandlerReturned(i)
          /\ routes[i].logOutput = << routes[i].returned >>
          /\ routes[i].pc = "rejected" /\ routes[i].error = LogOutputError
          /\ routes[i].routed = << "error" >>
          /\ routes[j].calls = <<>> /\ routes[j].pc = "rejected"
          /\ routes[j].logOutput = <<>>

====
